---- MODULE Spec2Model ----
(***************************************************************************)
(* Tariff rating and consolidation engine of the 3PL freight audit         *)
(* dashboard: the lock-guarded tariff cache (tariff_cache.py), the two     *)
(* rating algorithms (rating_engine.py), the batch re-rating pipeline      *)
(* (rating_pipeline.py) and the persistence of its results                 *)
(* (audit_engine.py).                                                      *)
(*                                                                         *)
(* Number representation. Python Decimals are modelled as scaled integers: *)
(*   weights and pallets   Numeric(10,2)  -> hundredths (w = 75000 is      *)
(*                                           750.00 lb, p = 230 is 2.30)   *)
(*   charges, min charges  Numeric(10,2)  -> cents                         *)
(*   rate per cwt          Numeric(10,4)  -> 1/10000 dollar                *)
(* Optional values: None is << >>, a present value x is << x >>.           *)
(* Strings are tuples of one-character strings so that upper() and strip() *)
(* can be computed.                                                        *)
(***************************************************************************)
EXTENDS Integers, Sequences, FiniteSets, TLC

VARIABLES
    \* ---- tariff_cache.py module state and the callers of get_tariff_cache
    now,            \* datetime.utcnow(), in minutes
    tariffDb,       \* rows of the tariffs / tariff_lanes / tariff_breaks tables
    TARIFF_CACHE,   \* _TARIFF_CACHE: None or a TariffCache snapshot
    CACHE_LOCK,     \* _CACHE_LOCK: None or the caller holding it
    pc,             \* per caller: position inside get_tariff_cache
    force,          \* per caller: the force_reload argument of its call
    ret,            \* per caller: the snapshot its call returned (None before)
    seenBuild,      \* per caller: the build that was in progress when it called
                    \* and has since completed or is still running (0: none)
    didBuild,       \* per caller: its current call ran _load_tariff_cache
    buildSeq,       \* number of _load_tariff_cache runs started so far
    callsLeft,      \* calls still allowed (bounds the run)
    \* ---- pure-function harness (rating_engine.py, find_lane)
    fn,             \* which function was applied ("none" before)
    arg,            \* its arguments
    out,            \* its return value, filed under the function's name
    \* ---- audit run state (rating_pipeline.py, audit_engine.py)
    shipments,      \* rows of the shipments table for the audit run
    auditResults,   \* rating columns of the audit_results rows, by shipment index (None: none stored)
    lastRerate,     \* outcome of the last rerate_audit call
    summary_metrics, \* audit_run.summary_metrics
    pass,           \* a rerate pass in progress: its position and its locals
    audit_run       \* the audit run's stored status and run_audit's position

vars == << now, tariffDb, TARIFF_CACHE, CACHE_LOCK, pc, force, ret, seenBuild,
           didBuild, buildSeq, callsLeft,
           fn, arg, out, shipments, auditResults, lastRerate,
           summary_metrics, pass, audit_run >>

cacheVars == << now, tariffDb, TARIFF_CACHE, CACHE_LOCK, pc, force, ret,
                seenBuild, didBuild, buildSeq, callsLeft >>
fnVars == << fn, arg, out >>

\* the value the applied function returned
res == out[fn]
runVars == << shipments, auditResults, lastRerate, summary_metrics, pass, audit_run >>

(***************************************************************************)
(* Optional values                                                         *)
(***************************************************************************)
None == << >>
Some(x) == << x >>
IsNone(o) == o = << >>
Val(o) == o[1]

\* the element of a one-element set. Only({ e : x \in { v } }) is e with x
\* holding the value of v: a local variable of the code, assigned once and
\* read many times
Only(S) == CHOOSE x \in S : TRUE

(***************************************************************************)
(* Strings: str.upper() and str.strip()                                    *)
(***************************************************************************)
LowerChars == {"a", "c", "n", "o", "q", "t", "x"}
UpperChars == {"A", "C", "N", "O", "Q", "T", "X"}
Space == " "

\* str.upper() on one character
UpperChar(c) ==
    CASE c = "a" -> "A" [] c = "c" -> "C" [] c = "n" -> "N" [] c = "o" -> "O"
      [] c = "q" -> "Q" [] c = "t" -> "T" [] c = "x" -> "X" [] OTHER -> c

Upper(s) == [i \in 1..Len(s) |-> UpperChar(s[i])]

RECURSIVE LStrip(_)
LStrip(s) == IF s # << >> /\ Head(s) = Space THEN LStrip(Tail(s)) ELSE s

RECURSIVE RStrip(_)
RStrip(s) ==
    IF s # << >> /\ s[Len(s)] = Space THEN RStrip(SubSeq(s, 1, Len(s) - 1)) ELSE s

Strip(s) == RStrip(LStrip(s))

\* Python truthiness of an Optional[str]: None and "" are falsy
StrTruthy(o) == ~IsNone(o) /\ Val(o) # << >>

(***************************************************************************)
(* Decimal helpers                                                         *)
(***************************************************************************)
Max2(a, b) == IF a >= b THEN a ELSE b
Min2(a, b) == IF a <= b THEN a ELSE b

\* Decimal.to_integral_value(rounding=ROUND_CEILING) of n/d, d > 0
CeilDiv(n, d) == -((-n) \div d)

\* Python truthiness of an Optional[Decimal]: None and 0 are falsy
NumTruthy(o) == ~IsNone(o) /\ Val(o) # 0

\* `x or Decimal("0")` for an Optional[Decimal]
OrZero(o) == IF NumTruthy(o) THEN Val(o) ELSE 0

(***************************************************************************)
(* tariff_cache.py: building a snapshot from the tariff tables             *)
(***************************************************************************)
\* dict[key] = value
DictSet(dict, key, value) ==
    [k \in DOMAIN dict \cup {key} |-> IF k = key THEN value ELSE dict[k]]

\* list.sort(key=lambda b: b.start or Decimal("0")): a stable sort, here by
\* insertion from the right
RECURSIVE InsertByStart(_, _)
InsertByStart(b, sorted) ==
    IF sorted = << >> THEN << b >>
    ELSE IF OrZero(b.start) <= OrZero(Head(sorted).start)
         THEN << b >> \o sorted
         ELSE << Head(sorted) >> \o InsertByStart(b, Tail(sorted))

RECURSIVE SortByStart(_)
SortByStart(breaks) ==
    IF breaks = << >> THEN << >>
    ELSE InsertByStart(Head(breaks), SortByStart(Tail(breaks)))

\* the loop of _build_lane_cache over lane.breaks, from row i on
RECURSIVE AddBreaks(_, _, _)
AddBreaks(cache, breaks, i) ==
    IF i > Len(breaks) THEN cache
    ELSE LET br == breaks[i]
             next ==
               IF NumTruthy(br.num_spots) /\ ~IsNone(br.spot_charge)
               THEN [cache EXCEPT !.skid_breaks =
                        DictSet(@, Val(br.num_spots), OrZero(br.spot_charge))]
               ELSE IF ~IsNone(br.rate_per_cwt)
               THEN [cache EXCEPT !.cwt_breaks =
                        Append(@, [start |-> br.break_from_weight,
                                   end |-> br.break_to_weight,
                                   rate_per_cwt |-> Val(br.rate_per_cwt)])]
               ELSE cache
         IN AddBreaks(next, breaks, i + 1)

EmptySkid == [n \in {} |-> 0]

BuildLaneCache(lane) ==
    LET filled == AddBreaks([min_charge |-> OrZero(lane.min_charge),
                             cwt_breaks |-> << >>,
                             skid_breaks |-> EmptySkid], lane.breaks, 1)
    IN [filled EXCEPT !.cwt_breaks = SortByStart(@)]

EmptyIndex == [k \in {} |-> 0]

\* the loop of _load_tariff_cache over tariff.lanes, from lane i on
RECURSIVE AddLanes(_, _, _)
AddLanes(entry, lanes, i) ==
    IF i > Len(lanes) THEN entry
    ELSE LET lane == lanes[i]
             lane_cache == BuildLaneCache(lane)
             prov_key == Strip(Upper(lane.dest_province))
             next ==
               IF StrTruthy(lane.dest_city)
               THEN [entry EXCEPT !.lanes_by_city =
                        DictSet(@, << Strip(Upper(Val(lane.dest_city))), prov_key >>, lane_cache)]
               ELSE [entry EXCEPT !.lanes_by_province = DictSet(@, prov_key, lane_cache)]
         IN AddLanes(next, lanes, i + 1)

TariffCacheEntry(tariff) ==
    AddLanes([id |-> tariff.id,
              carrier_name |-> tariff.carrier_name,
              origin_dc |-> tariff.origin_dc,
              tariff_type |-> tariff.tariff_type,
              lanes_by_city |-> EmptyIndex,
              lanes_by_province |-> EmptyIndex], tariff.lanes, 1)

\* _load_tariff_cache: one entry per tariff row, in the order the query
\* returned the rows; `build` stands for the identity of the new object
LoadTariffCache(rows, clock, build) ==
    [entries |-> [i \in 1..Len(rows) |-> TariffCacheEntry(rows[i])],
     last_loaded |-> clock,
     build |-> build]

(***************************************************************************)
(* Rows of the tariff tables used by the finite model                      *)
(***************************************************************************)
Lb(n) == n * 100            \* pounds      -> hundredths of a pound
Dollars(n) == n * 100       \* dollars     -> cents
PerCwt(n) == n * 10000      \* dollars/cwt -> 1/10000 dollar

CwtRow(from, to, rate) ==
    [break_from_weight |-> from, break_to_weight |-> to,
     rate_per_cwt |-> Some(rate), num_spots |-> None, spot_charge |-> None]

SkidRow(spots, charge) ==
    [break_from_weight |-> None, break_to_weight |-> None,
     rate_per_cwt |-> None, num_spots |-> Some(spots), spot_charge |-> Some(charge)]

LaneRow(city, province, min_charge, breaks) ==
    [dest_city |-> city, dest_province |-> province,
     min_charge |-> min_charge, breaks |-> breaks]

TariffRow(id, carrier, origin, type, lanes) ==
    [id |-> id, carrier_name |-> carrier, origin_dc |-> origin,
     tariff_type |-> type, lanes |-> lanes]

ON == << "O", "N" >>
QC == << "Q", "C" >>
CityTO == << "T", "O" >>
CityOTT == << "O", "T", "T" >>
OriginXA == << "X", "A" >>
OriginXC == << "X", "C" >>

\* the lane of the specification's worked examples:
\* [0,500) $20/cwt, [500,1000) $18/cwt, [1000,inf) $15/cwt, minimum $45
StdBreakRows ==
    << CwtRow(Some(Lb(0)), Some(Lb(500)), PerCwt(20)),
       CwtRow(Some(Lb(500)), Some(Lb(1000)), PerCwt(18)),
       CwtRow(Some(Lb(1000)), None, PerCwt(15)) >>

\* spot breaks {1: $100, 2: $180, 3: $250, 4: $300}
StdSpotRows ==
    << SkidRow(1, Dollars(100)), SkidRow(2, Dollars(180)),
       SkidRow(3, Dollars(250)), SkidRow(4, Dollars(300)) >>

TariffAlpha ==
    TariffRow("t1", "ALPHA", OriginXA, "cwt",
              << LaneRow(None, ON, Some(Dollars(45)), StdBreakRows) >>)

TariffBeta ==
    TariffRow("t2", "BETA", << "x", "a", " " >>, "skid_spot",
              << LaneRow(Some(CityTO), ON, None, StdSpotRows) >>)

\* the two contents used while exploring concurrent get_tariff_cache calls
CacheDbs == { << TariffAlpha >>, << TariffBeta >> }

\* the orders in which db.query(Tariff).all() may return the rows (no ORDER BY)
RowOrders(rows) ==
    { [i \in 1..Len(rows) |-> rows[p[i]]] :
        p \in { q \in [1..Len(rows) -> 1..Len(rows)] :
                  \A i, j \in 1..Len(rows) : i # j => q[i] # q[j] } }

(***************************************************************************)
(* Shipments and tariffs of the modelled audit run                         *)
(***************************************************************************)
ShipDate(week, weekday) == Some([week |-> week, weekday |-> weekday])

ShipmentRow(id, origin, city, province, date, pallets, weight, dim_weight, actual) ==
    [id |-> id, origin_dc |-> origin, dest_city |-> city, dest_province |-> province,
     ship_date |-> date, pallets |-> pallets, weight |-> weight,
     dim_weight |-> dim_weight, actual_charge |-> actual]

\* 750 lb on 2 pallets to Toronto on a Monday, billed $300
ShipA ==
    ShipmentRow("s1", Some(<< "x", "a", " " >>), Some(CityTO), Some(ON), ShipDate(1, 0),
                Some(200), Some(Lb(750)), None, Some(Dollars(300)))

\* 50 lb on 1 pallet to Toronto on the Wednesday of the same week, billed $60
ShipB ==
    ShipmentRow("s2", Some(OriginXA), Some(<< "t", "o" >>), Some(<< "o", "n" >>),
                ShipDate(1, 2), Some(100), Some(Lb(50)), Some(Lb(40)), Some(Dollars(60)))

\* no origin, no weight, shipped to Ottawa on a Friday
ShipC ==
    ShipmentRow("s3", None, Some(CityOTT), Some(QC), ShipDate(1, 4),
                None, None, None, None)

\* province only, zero weight, billed less than any tariff would charge
ShipD ==
    ShipmentRow("s4", Some(OriginXA), None, Some(ON), ShipDate(1, 3),
                Some(100), Some(0), None, Some(Dollars(40)))

\* same origin, destination and week as ShipA and ShipB, but shipped on the
\* Friday; neither pallets nor weight nor a charge, only a billed weight of 120 lb
ShipE ==
    ShipmentRow("s5", Some(OriginXA), Some(CityTO), Some(ON), ShipDate(1, 4),
                None, None, Some(Lb(120)), None)

\* one more for the same origin, destination and week, shipped on the Sunday
ShipH ==
    ShipmentRow("s8", Some(OriginXA), Some(CityTO), Some(ON), ShipDate(1, 6),
                Some(100), Some(Lb(100)), None, Some(Dollars(50)))

\* one pallet to Toronto on the Tuesday of the week of ShipA, without scale
\* or billed weight, billed $200
ShipI ==
    ShipmentRow("s9", Some(OriginXA), Some(CityTO), Some(ON), ShipDate(1, 1),
                Some(100), None, None, Some(Dollars(200)))

\* 50 lb on 1 pallet to Toronto on the Wednesday of that week, with no billed
\* amount
ShipJ ==
    ShipmentRow("s10", Some(OriginXA), Some(CityTO), Some(ON), ShipDate(1, 2),
                Some(100), Some(Lb(50)), None, None)

\* two shipments of 100 lb, billed weight 200 lb, of origin XC to Ottawa,
\* Tuesday and Thursday of week 2, billed $50 each: shipped as one load they
\* weigh 200 lb with a billed weight of 400 lb, still in the first weight
\* break
ShipF ==
    ShipmentRow("s6", Some(OriginXC), Some(CityOTT), Some(ON), ShipDate(2, 1),
                Some(100), Some(Lb(100)), Some(Lb(200)), Some(Dollars(50)))

ShipG ==
    ShipmentRow("s7", Some(OriginXC), Some(CityOTT), Some(ON), ShipDate(2, 3),
                Some(100), Some(Lb(100)), Some(Lb(200)), Some(Dollars(50)))

ShipmentLists ==
    { << >>,
      << ShipC, ShipD, ShipA, ShipI, ShipJ >>,
      << ShipA, ShipE, ShipB, ShipF, ShipG, ShipH >> }

\* ALPHA's lanes under another carrier and id: every charge ties with ALPHA's
TariffGamma ==
    TariffRow("t3", "GAMMA", OriginXA, "cwt",
              << LaneRow(None, ON, Some(Dollars(45)), StdBreakRows) >>)

\* a second tariff of carrier ALPHA, priced per skid spot
TariffAlphaSpot ==
    TariffRow("t4", "ALPHA", OriginXA, "skid_spot",
              << LaneRow(Some(CityTO), ON, None, StdSpotRows) >>)

\* a tariff of another origin
TariffDelta ==
    TariffRow("t5", "DELTA", OriginXC, "cwt",
              << LaneRow(None, ON, Some(Dollars(10)), StdBreakRows) >>)

\* the tariff_ids arguments of rerate_audit
TariffIdInputs == { None, Some(<< >>), Some(<< "t3", "t4" >>), Some(<< "t9" >>) }

\* contents of the tariff tables between which ingestion moves
TariffDbs ==
    { << >>,
      << TariffAlpha, TariffGamma, TariffDelta >>,
      << TariffAlphaSpot, TariffAlpha >> }

(***************************************************************************)
(* tariff_cache.py: get_tariff_cache and its concurrent callers            *)
(***************************************************************************)
NumCallers == 2
MaxTime == 15
TickMinutes == 5
MaxCalls == 3
CACHE_TTL == 10

Callers == 1..NumCallers

\* (mutant) the lock is never found taken
LockFreeNoLock == TRUE

\* `with _CACHE_LOCK:` can be entered
LockFree == CACHE_LOCK = 0

\* (mutant) a snapshot exactly CACHE_TTL old already counts as stale
ShouldReloadAtTtl(force_reload, cache, clock) ==
    \/ force_reload
    \/ IsNone(cache)
    \/ (~IsNone(cache) /\ clock - Val(cache).last_loaded >= CACHE_TTL)

\* lines 136-139: should_reload
ShouldReload(force_reload, cache, clock) ==
    \/ force_reload
    \/ IsNone(cache)
    \/ (~IsNone(cache) /\ clock - Val(cache).last_loaded > CACHE_TTL)

\* a caller invokes get_tariff_cache(db, force_reload) and reaches the lock
Call(t, f) ==
    /\ pc[t] = "idle"
    /\ callsLeft > 0
    /\ callsLeft' = callsLeft - 1
    /\ pc' = [pc EXCEPT ![t] = "waiting"]
    /\ force' = [force EXCEPT ![t] = f]
    /\ ret' = [ret EXCEPT ![t] = None]
    /\ seenBuild' = [seenBuild EXCEPT
                       ![t] = IF \E u \in Callers : pc[u] = "loading" THEN buildSeq ELSE 0]
    /\ didBuild' = [didBuild EXCEPT ![t] = FALSE]
    /\ UNCHANGED << now, tariffDb, TARIFF_CACHE, CACHE_LOCK, buildSeq >>
    /\ UNCHANGED << fnVars, runVars >>

\* the caller acquires the lock and runs lines 136-140: it either starts
\* _load_tariff_cache (keeping the lock) or returns the existing snapshot
Enter(t) ==
    /\ pc[t] = "waiting"
    /\ LockFree
    /\ IF ShouldReload(force[t], TARIFF_CACHE, now)
       THEN /\ CACHE_LOCK' = t
            /\ pc' = [pc EXCEPT ![t] = "loading"]
            /\ buildSeq' = buildSeq + 1
            /\ didBuild' = [didBuild EXCEPT ![t] = TRUE]
            /\ UNCHANGED ret
       ELSE /\ ret' = [ret EXCEPT ![t] = TARIFF_CACHE]
            /\ pc' = [pc EXCEPT ![t] = "returned"]
            /\ UNCHANGED << CACHE_LOCK, buildSeq, didBuild >>
    /\ UNCHANGED << now, tariffDb, TARIFF_CACHE, force, seenBuild, callsLeft >>
    /\ UNCHANGED << fnVars, runVars >>

\* _load_tariff_cache returns: line 141 stores the snapshot, line 142 returns
\* it and the `with` block releases the lock
LoadOk(t) ==
    /\ pc[t] = "loading"
    /\ \E rows \in RowOrders(tariffDb) :
          /\ TARIFF_CACHE' = Some(LoadTariffCache(rows, now, buildSeq))
          /\ ret' = [ret EXCEPT ![t] = TARIFF_CACHE']
    /\ CACHE_LOCK' = 0
    /\ pc' = [pc EXCEPT ![t] = "returned"]
    /\ UNCHANGED << now, tariffDb, force, seenBuild, didBuild, buildSeq, callsLeft >>
    /\ UNCHANGED << fnVars, runVars >>

\* (mutant) the exception leaves get_tariff_cache with the lock still held
LoadFailKeepsLock(t) ==
    /\ pc[t] = "loading"
    /\ pc' = [pc EXCEPT ![t] = "raised"]
    /\ seenBuild' = [u \in Callers |-> IF seenBuild[u] = buildSeq THEN 0 ELSE seenBuild[u]]
    /\ UNCHANGED << now, tariffDb, TARIFF_CACHE, CACHE_LOCK, force, ret, didBuild,
                    buildSeq, callsLeft >>
    /\ UNCHANGED << fnVars, runVars >>

\* the query of _load_tariff_cache raises: the exception leaves the `with`
\* block, which releases the lock; line 141's assignment never happens
LoadFail(t) ==
    /\ pc[t] = "loading"
    /\ CACHE_LOCK' = 0
    /\ pc' = [pc EXCEPT ![t] = "raised"]
    /\ seenBuild' = [u \in Callers |-> IF seenBuild[u] = buildSeq THEN 0 ELSE seenBuild[u]]
    /\ UNCHANGED << now, tariffDb, TARIFF_CACHE, force, ret, didBuild, buildSeq, callsLeft >>
    /\ UNCHANGED << fnVars, runVars >>

\* the caller is done with the call's outcome and may call again
Finish(t) ==
    /\ pc[t] \in {"returned", "raised"}
    /\ pc' = [pc EXCEPT ![t] = "idle"]
    /\ ret' = [ret EXCEPT ![t] = None]
    /\ force' = [force EXCEPT ![t] = FALSE]
    /\ seenBuild' = [seenBuild EXCEPT ![t] = 0]
    /\ didBuild' = [didBuild EXCEPT ![t] = FALSE]
    /\ UNCHANGED << now, tariffDb, TARIFF_CACHE, CACHE_LOCK, buildSeq, callsLeft >>
    /\ UNCHANGED << fnVars, runVars >>

\* time passes (the model's clock advances TickMinutes at a time)
Tick ==
    /\ now + TickMinutes <= MaxTime
    /\ now' = now + TickMinutes
    /\ UNCHANGED << tariffDb, TARIFF_CACHE, CACHE_LOCK, pc, force, ret, seenBuild,
                    didBuild, buildSeq, callsLeft >>
    /\ UNCHANGED << fnVars, runVars >>

\* tariff ingestion commits new rows to the tariff tables
Ingest ==
    /\ \E db \in CacheDbs \ {tariffDb} : tariffDb' = db
    /\ UNCHANGED << now, TARIFF_CACHE, CACHE_LOCK, pc, force, ret, seenBuild,
                    didBuild, buildSeq, callsLeft >>
    /\ UNCHANGED << fnVars, runVars >>

IdleFn == fn = "none" /\ arg = << >> /\ out = [none |-> << >>]
IdleRun ==
    /\ shipments = << >> /\ auditResults = << >>
    /\ lastRerate = << >> /\ summary_metrics = << >>
    /\ pass = << >>
    /\ audit_run = << >>

InitCache ==
    /\ now = 0
    /\ tariffDb \in CacheDbs
    /\ TARIFF_CACHE = None
    /\ CACHE_LOCK = 0
    /\ pc = [t \in Callers |-> "idle"]
    /\ force = [t \in Callers |-> FALSE]
    /\ ret = [t \in Callers |-> None]
    /\ seenBuild = [t \in Callers |-> 0]
    /\ didBuild = [t \in Callers |-> FALSE]
    /\ buildSeq = 0
    /\ callsLeft = MaxCalls
    /\ IdleFn
    /\ IdleRun

NextCache ==
    \/ \E t \in Callers : \E f \in BOOLEAN : Call(t, f)
    \/ \E t \in Callers : Enter(t)
    \/ \E t \in Callers : LoadOk(t)
    \/ \E t \in Callers : LoadFail(t)
    \/ \E t \in Callers : Finish(t)
    \/ Tick
    \/ Ingest

SpecCache == InitCache /\ [][NextCache]_vars

(***************************************************************************)
(* tariff_cache.py: TariffCacheEntry.find_lane                             *)
(***************************************************************************)
\* dict.get(key): None when the key is absent
DictGet(dict, key) == IF key \in DOMAIN dict THEN Some(dict[key]) ELSE None

\* _normalize_key on one component: value.upper().strip() if value else None
NormalizeKey(value) == IF StrTruthy(value) THEN Some(Strip(Upper(Val(value)))) ELSE None

\* (mutant) the province-only index is consulted before the city index
FindLaneProvinceFirst(entry, dest_city, dest_province) ==
    IF ~StrTruthy(dest_province) THEN None
    ELSE LET city_key == NormalizeKey(dest_city)
             prov_key == NormalizeKey(dest_province)
         IN IF StrTruthy(prov_key) /\ Val(prov_key) \in DOMAIN entry.lanes_by_province
            THEN DictGet(entry.lanes_by_province, Val(prov_key))
            ELSE IF StrTruthy(city_key) /\ StrTruthy(prov_key)
                 THEN DictGet(entry.lanes_by_city, << Val(city_key), Val(prov_key) >>)
                 ELSE None

FindLane(entry, dest_city, dest_province) ==
    IF ~StrTruthy(dest_province) THEN None
    ELSE LET city_key == NormalizeKey(dest_city)
             prov_key == NormalizeKey(dest_province)
             by_city == IF StrTruthy(city_key) /\ StrTruthy(prov_key)
                        THEN DictGet(entry.lanes_by_city, << Val(city_key), Val(prov_key) >>)
                        ELSE None
         IN IF ~IsNone(by_city) THEN by_city
            ELSE IF StrTruthy(prov_key)
                 THEN DictGet(entry.lanes_by_province, Val(prov_key))
                 ELSE None

(***************************************************************************)
(* rating_engine.py: the rating algorithms                                 *)
(***************************************************************************)
FUEL_TAX_MARGIN_MULTIPLIER_X100 == 153   \* Decimal("1.53")
SKID_WEIGHT_CAP_LB == 2000               \* Decimal("2000") per spot
CWT_LB == 100                            \* Decimal("100") pounds per cwt

\* Decimal.quantize(Decimal("0.01")) under the default context, whose rounding
\* is ROUND_HALF_EVEN; x is an amount in 1/unitsPerCent of a cent
QuantizeCents(x, unitsPerCent) ==
    LET q == x \div unitsPerCent
        r == x % unitsPerCent
    IN IF 2 * r > unitsPerCent THEN q + 1
       ELSE IF 2 * r < unitsPerCent THEN q
       ELSE IF q % 2 = 0 THEN q ELSE q + 1

\* _select_billable_weight: max of the present, positive weights
SelectBillableWeight(weight_value, dim_weight_value) ==
    LET candidates == { w \in {weight_value, dim_weight_value} : NumTruthy(w) /\ Val(w) > 0 }
    IN IF candidates = {} THEN None
       ELSE CHOOSE w \in candidates : \A v \in candidates : Val(v) <= Val(w)

\* the test of lines 106-107 / 120-121: start <= weight < end, end None open
InBreak(br, w) == w >= OrZero(br.start) /\ (IsNone(br.end) \/ w < Val(br.end))

\* lines 101-109: the first break, in list order, whose range holds the weight
RECURSIVE FirstMatch(_, _, _)
FirstMatch(breaks, i, w) ==
    IF i > Len(breaks) THEN None
    ELSE IF InBreak(breaks[i], w) THEN Some(breaks[i])
    ELSE FirstMatch(breaks, i + 1, w)

\* (mutant) the fallback keeps the first break that starts at or below the
\* weight
RECURSIVE FallbackScanKeepsFirst(_, _, _, _)
FallbackScanKeepsFirst(sorted, i, w, selected) ==
    IF i > Len(sorted) THEN selected
    ELSE IF w >= OrZero(sorted[i].start)
         THEN IF InBreak(sorted[i], w) THEN Some(sorted[i])
              ELSE FallbackScanKeepsFirst(sorted, i + 1, w,
                                          IF IsNone(selected) THEN Some(sorted[i])
                                          ELSE selected)
         ELSE FallbackScanKeepsFirst(sorted, i + 1, w, selected)

\* lines 116-125: over the breaks sorted by start, stop at a break holding the
\* weight; otherwise keep the last break whose start is <= weight
RECURSIVE FallbackScan(_, _, _, _)
FallbackScan(sorted, i, w, selected) ==
    IF i > Len(sorted) THEN selected
    ELSE IF w >= OrZero(sorted[i].start)
         THEN IF InBreak(sorted[i], w) THEN Some(sorted[i])
              ELSE FallbackScan(sorted, i + 1, w, Some(sorted[i]))
         ELSE FallbackScan(sorted, i + 1, w, selected)

\* lines 99-125
SelectBreak(breaks, w) ==
    LET exact == FirstMatch(breaks, 1, w)
    IN IF IsNone(exact) /\ breaks # << >>
       THEN FallbackScan(SortByStart(breaks), 1, w, None)
       ELSE exact

\* (mutant) the minimum charge is not applied
RateCwtNoMinimum(billable_weight, lane_cache, apply_multiplier) ==
    IF ~NumTruthy(billable_weight) \/ Val(billable_weight) <= 0 THEN None
    ELSE LET w == Val(billable_weight)
             cwt == CeilDiv(w, CWT_LB * 100)
             selected_break == SelectBreak(lane_cache.cwt_breaks, w)
         IN IF IsNone(selected_break) THEN None
            ELSE LET linehaul == cwt * Val(selected_break).rate_per_cwt
                 IN Some(QuantizeCents(linehaul * FUEL_TAX_MARGIN_MULTIPLIER_X100, 10000))

\* rate_cwt_cached; the charge returned is in cents
RateCwtCached(billable_weight, lane_cache, apply_multiplier) ==
    IF ~NumTruthy(billable_weight) \/ Val(billable_weight) <= 0 THEN None
    ELSE LET w == Val(billable_weight)
             cwt == CeilDiv(w, CWT_LB * 100)
             selected_break == SelectBreak(lane_cache.cwt_breaks, w)
         IN IF IsNone(selected_break) THEN None
            ELSE LET linehaul == cwt * Val(selected_break).rate_per_cwt
                     base_charge == Max2(linehaul, lane_cache.min_charge * 100)
                 IN IF apply_multiplier
                    THEN Some(QuantizeCents(base_charge * FUEL_TAX_MARGIN_MULTIPLIER_X100, 10000))
                    ELSE Some(QuantizeCents(base_charge, 100))

SetMax(S) == CHOOSE m \in S : \A x \in S : x <= m

\* (mutant) the weight cap is tested after clamping to the largest spot count
RateSkidCapAfterClamp(pallets_value, weight_value, lane_cache, apply_multiplier) ==
    LET pallets == IF NumTruthy(pallets_value) THEN Val(pallets_value) ELSE 100
        num_spots == Max2(1, CeilDiv(pallets, 100))
    IN IF DOMAIN lane_cache.skid_breaks = {} THEN None
       ELSE LET spots_to_use == Min2(num_spots, SetMax(DOMAIN lane_cache.skid_breaks))
                base_charge == DictGet(lane_cache.skid_breaks, spots_to_use)
            IN IF NumTruthy(weight_value)
                  /\ Val(weight_value) > SKID_WEIGHT_CAP_LB * 100 * spots_to_use
               THEN None
               ELSE IF IsNone(base_charge) THEN None
               ELSE Some(QuantizeCents(Val(base_charge) * FUEL_TAX_MARGIN_MULTIPLIER_X100, 100))

\* (mutant) a missing or non-positive pallet count or weight yields no charge
RateSkidNeedsPalletsAndWeight(pallets_value, weight_value, lane_cache, apply_multiplier) ==
    IF \/ ~NumTruthy(pallets_value) \/ Val(pallets_value) <= 0
       \/ ~NumTruthy(weight_value) \/ Val(weight_value) <= 0
    THEN None
    ELSE LET num_spots == Max2(1, CeilDiv(Val(pallets_value), 100))
         IN IF Val(weight_value) > SKID_WEIGHT_CAP_LB * 100 * num_spots THEN None
            ELSE IF DOMAIN lane_cache.skid_breaks = {} THEN None
            ELSE LET spots_to_use == Min2(num_spots, SetMax(DOMAIN lane_cache.skid_breaks))
                     base_charge == DictGet(lane_cache.skid_breaks, spots_to_use)
                 IN IF IsNone(base_charge) THEN None
                    ELSE Some(QuantizeCents(Val(base_charge) * FUEL_TAX_MARGIN_MULTIPLIER_X100,
                                            100))

\* rate_skid_spot_cached; pallets and weight in hundredths, the charge in cents
RateSkidSpotCached(pallets_value, weight_value, lane_cache, apply_multiplier) ==
    LET pallets == IF NumTruthy(pallets_value) THEN Val(pallets_value) ELSE 100
        num_spots == Max2(1, CeilDiv(pallets, 100))
    IN IF NumTruthy(weight_value)
          /\ Val(weight_value) > SKID_WEIGHT_CAP_LB * 100 * num_spots
       THEN None
       ELSE IF DOMAIN lane_cache.skid_breaks = {} THEN None
       ELSE LET max_spots == SetMax(DOMAIN lane_cache.skid_breaks)
                spots_to_use == Min2(num_spots, max_spots)
                base_charge == DictGet(lane_cache.skid_breaks, spots_to_use)
            IN IF IsNone(base_charge) THEN None
               ELSE IF apply_multiplier
                    THEN Some(QuantizeCents(Val(base_charge) * FUEL_TAX_MARGIN_MULTIPLIER_X100, 100))
                    ELSE Some(Val(base_charge))

\* find_best_carrier: min(charges.items(), key=amount) returns the first
\* minimal item in the dict's insertion order; charges is that item list
RECURSIVE MinItem(_, _, _)
MinItem(items, i, best) ==
    IF i > Len(items) THEN best
    ELSE MinItem(items, i + 1, IF items[i][2] < best[2] THEN items[i] ELSE best)

FindBestCarrier(charges) ==
    IF charges = << >> THEN << None, None >>
    ELSE LET best == MinItem(charges, 2, charges[1])
         IN << Some(best[1]), Some(best[2]) >>

(***************************************************************************)
(* Harness applying the pure functions to inputs drawn from bounded sets   *)
(***************************************************************************)
MaxBreaks == 3
MaxCarriers == 3

\* sequences of at most n distinct elements of S
DistinctSeqs(S, n) ==
    { q \in UNION { [1..k -> S] : k \in 0..n } :
        \A i, j \in DOMAIN q : i # j => q[i] # q[j] }

\* break rows a lane may hold: the three standard tiers, an overlapping tier,
\* an open tier from 500 lb and a single all-weights tier at $0.10/cwt whose
\* start was left empty
CandidateBreakRows ==
    { CwtRow(Some(Lb(0)), Some(Lb(500)), PerCwt(20)),
      CwtRow(Some(Lb(500)), Some(Lb(1000)), PerCwt(18)),
      CwtRow(Some(Lb(1000)), None, PerCwt(15)),
      CwtRow(Some(Lb(0)), Some(Lb(1000)), PerCwt(20)),
      CwtRow(Some(Lb(500)), None, PerCwt(18)),
      CwtRow(None, None, 1000) }

MinChargeInputs == { None, Some(Dollars(45)), Some(50), Some(4502) }

CwtLanes ==
    { BuildLaneCache(LaneRow(None, ON, m, rows)) :
        m \in MinChargeInputs, rows \in DistinctSeqs(CandidateBreakRows, MaxBreaks) }

WeightInputs ==
    { None, Some(0), Some(-Lb(1)), Some(1), Some(Lb(50)), Some(Lb(500) - 50),
      Some(Lb(500)), Some(Lb(750)), Some(Lb(1000) - 1), Some(Lb(1000)), Some(Lb(2500)) }

SpotRowInputs ==
    { StdSpotRows,
      << SkidRow(1, 50) >>,
      << SkidRow(1, Dollars(100)), SkidRow(2, Dollars(180)), SkidRow(4, Dollars(300)) >>,
      << SkidRow(2, Dollars(180)), SkidRow(3, Dollars(250)) >>,
      << >> }

SkidLanes == { BuildLaneCache(LaneRow(Some(CityTO), ON, None, rows)) : rows \in SpotRowInputs }

PalletInputs == { None, Some(0), Some(1), Some(100), Some(230), Some(300), Some(600), Some(-250) }

SkidWeightInputs ==
    { None, Some(0), Some(Lb(2000)), Some(Lb(2000) + 1), Some(Lb(5000)),
      Some(Lb(6000)), Some(Lb(6000) + 1), Some(Lb(11000)), Some(Lb(13000)) }

\* tariffs whose lanes differ by minimum charge, so that a lookup's result
\* tells which lane was found
LaneTariffs ==
    { TariffRow("t1", "ALPHA", OriginXA, "cwt",
                << LaneRow(Some(CityTO), ON, Some(Dollars(30)), StdBreakRows),
                   LaneRow(None, ON, Some(Dollars(45)), StdBreakRows) >>),
      TariffRow("t2", "BETA", OriginXA, "cwt",
                << LaneRow(Some(CityTO), ON, Some(Dollars(30)), StdBreakRows),
                   LaneRow(Some(CityOTT), QC, Some(Dollars(35)), StdBreakRows) >>),
      TariffRow("t3", "GAMMA", OriginXA, "cwt",
                << LaneRow(None, QC, Some(Dollars(50)), StdBreakRows) >>),
      TariffRow("t4", "DELTA", OriginXA, "cwt", << >>) }

CityInputs ==
    { None, Some(<< >>), Some(<< " " >>), Some(CityTO), Some(<< "t", "o" >>),
      Some(<< " ", "T", "o", " " >>), Some(CityOTT) }

ProvinceInputs ==
    { None, Some(<< >>), Some(<< " " >>), Some(ON), Some(<< "o", "n" >>),
      Some(<< " ", "o", "N", " " >>), Some(QC), Some(<< "N", "T" >>) }

CarrierNames == { "A", "B", "C" }
AmountInputs == { 19900, 22032, 25000 }

\* dicts carrier -> amount as item lists in insertion order (keys distinct)
ChargeDicts ==
    { q \in DistinctSeqs(CarrierNames \X AmountInputs, MaxCarriers) :
        \A i, j \in DOMAIN q : i # j => q[i][1] # q[j][1] }

ApplyFindLane ==
    /\ fn = "none"
    /\ \E tariff \in LaneTariffs, city \in CityInputs, province \in ProvinceInputs :
          LET entry == TariffCacheEntry(tariff)
          IN /\ arg' = [entry |-> entry, dest_city |-> city, dest_province |-> province]
             /\ out' = [find_lane |-> FindLane(entry, city, province)]
    /\ fn' = "find_lane"
    /\ UNCHANGED << cacheVars, runVars >>

ApplyRateCwt ==
    /\ fn = "none"
    /\ \E w \in WeightInputs, lane \in CwtLanes :
          /\ arg' = [billable_weight |-> w, lane_cache |-> lane]
          /\ out' = [rate_cwt |-> RateCwtCached(w, lane, TRUE)]
    /\ fn' = "rate_cwt"
    /\ UNCHANGED << cacheVars, runVars >>

ApplyRateSkid ==
    /\ fn = "none"
    /\ \E p \in PalletInputs, w \in SkidWeightInputs, lane \in SkidLanes :
          /\ arg' = [pallets |-> p, weight |-> w, lane_cache |-> lane]
          /\ out' = [rate_skid |-> RateSkidSpotCached(p, w, lane, TRUE)]
    /\ fn' = "rate_skid"
    /\ UNCHANGED << cacheVars, runVars >>

ApplySelectBillable ==
    /\ fn = "none"
    /\ \E w \in WeightInputs, d \in WeightInputs :
          /\ arg' = [weight |-> w, dim_weight |-> d]
          /\ out' = [select_billable |-> SelectBillableWeight(w, d)]
    /\ fn' = "select_billable"
    /\ UNCHANGED << cacheVars, runVars >>

ApplyFindBest ==
    /\ fn = "none"
    /\ \E charges \in ChargeDicts :
          /\ arg' = [charges |-> charges]
          /\ out' = [find_best |-> FindBestCarrier(charges)]
    /\ fn' = "find_best"
    /\ UNCHANGED << cacheVars, runVars >>

IdleCache ==
    /\ now = 0
    /\ tariffDb = << >>
    /\ TARIFF_CACHE = None
    /\ CACHE_LOCK = 0
    /\ pc = [t \in Callers |-> "idle"]
    /\ force = [t \in Callers |-> FALSE]
    /\ ret = [t \in Callers |-> None]
    /\ seenBuild = [t \in Callers |-> 0]
    /\ didBuild = [t \in Callers |-> FALSE]
    /\ buildSeq = 0
    /\ callsLeft = 0

InitFn == IdleCache /\ IdleFn /\ IdleRun

(***************************************************************************)
(* rating_pipeline.py: shipment records and carrier columns                *)
(*                                                                         *)
(* Floats. A carrier column holds float(charge) of a two-decimal Decimal   *)
(* charge, or NaN. At the magnitudes of Numeric(10,2), distinct two-       *)
(* decimal amounts have distinct nearest doubles and the order is kept,    *)
(* so a float cell is represented by the cent amount it came from: `<` and *)
(* isnan on cells are decided on that amount, and round(x, 2),             *)
(* Decimal(str(round(x, 4))) give the same cent amount back. NaN is None.  *)
(***************************************************************************)
UNKNOWN == << "U", "N", "K", "N", "O", "W", "N" >>

\* _normalize: value.strip().upper() if value else ""
Normalize(value) == IF StrTruthy(value) THEN Upper(Strip(Val(value))) ELSE << >>

\* _load_records: one ShipmentRecord per shipment row, in query order
ShipmentRecord(shipment) ==
    [shipment_id |-> shipment.id,
     origin_dc |-> IF StrTruthy(shipment.origin_dc) THEN Val(shipment.origin_dc) ELSE UNKNOWN,
     dest_city |-> shipment.dest_city,
     dest_province |-> shipment.dest_province,
     ship_date |-> shipment.ship_date,
     pallets |-> shipment.pallets,
     weight |-> shipment.weight,
     dim_weight |-> shipment.dim_weight,
     actual_charge |-> shipment.actual_charge,
     billable_weight |-> SelectBillableWeight(shipment.weight, shipment.dim_weight)]

RECURSIVE LoadRecords(_)
LoadRecords(rows) ==
    IF rows = << >> THEN << >>
    ELSE << ShipmentRecord(Head(rows)) >> \o LoadRecords(Tail(rows))

\* ShipmentRecord.origin_key / dest_city_key / dest_province_key
OriginKey(rec) ==
    LET key == Normalize(Some(rec.origin_dc)) IN IF key # << >> THEN key ELSE UNKNOWN
DestCityKey(rec) == Normalize(rec.dest_city)
DestProvinceKey(rec) == Normalize(rec.dest_province)

\* _filter_tariff_entries after get_tariff_cache returned `cache`: a falsy
\* tariff_ids (None or an empty list) selects every entry
RECURSIVE SelectEntries(_, _)
SelectEntries(entries, allowed) ==
    IF entries = << >> THEN << >>
    ELSE IF Head(entries).id \in allowed
         THEN << Head(entries) >> \o SelectEntries(Tail(entries), allowed)
         ELSE SelectEntries(Tail(entries), allowed)

FilterTariffEntries(cache, tariff_ids) ==
    IF ~IsNone(tariff_ids) /\ Val(tariff_ids) # << >>
    THEN SelectEntries(cache.entries, { Val(tariff_ids)[i] : i \in DOMAIN Val(tariff_ids) })
    ELSE cache.entries

\* (mutant) every tariff rates every shipment
OtherOriginNever(rec, entry) == FALSE

\* line 181: rec.origin_key != _normalize(entry.origin_dc)
OtherOrigin(rec, entry) == OriginKey(rec) # Normalize(Some(entry.origin_dc))

\* lane_lookup of _compute_carrier_columns: the lane found for the first
\* record, among those of the entry's origin, that has record idx's lane key
RECURSIVE LaneLookup(_, _, _, _)
LaneLookup(entry, records, idx, j) ==
    IF j >= idx
       \/ ( /\ ~OtherOrigin(records[j], entry)
            /\ DestCityKey(records[j]) = DestCityKey(records[idx])
            /\ DestProvinceKey(records[j]) = DestProvinceKey(records[idx]) )
    THEN FindLane(entry, records[j].dest_city, records[j].dest_province)
    ELSE LaneLookup(entry, records, idx, j + 1)

\* one cell of the entry's column: the charge of record idx, NaN if none
CarrierCharge(entry, records, idx) ==
    LET rec == records[idx]
    IN IF OtherOrigin(rec, entry) THEN None
       ELSE LET lane_cache == LaneLookup(entry, records, idx, 1)
            IN IF IsNone(lane_cache) THEN None
               ELSE IF entry.tariff_type = "cwt"
                    THEN RateCwtCached(rec.billable_weight, Val(lane_cache), TRUE)
                    ELSE RateSkidSpotCached(rec.pallets, rec.weight, Val(lane_cache), TRUE)

RECURSIVE ColumnCells(_, _, _)
ColumnCells(entry, records, idx) ==
    IF idx > Len(records) THEN << >>
    ELSE << CarrierCharge(entry, records, idx) >> \o ColumnCells(entry, records, idx + 1)

\* _compute_carrier_columns: one column per entry, in entry order, with the
\* carrier name column_to_carrier maps it to
RECURSIVE ComputeCarrierColumns(_, _)
ComputeCarrierColumns(records, entries) ==
    IF entries = << >> THEN << >>
    ELSE << [column |-> Head(entries).id,
             carrier |-> Head(entries).carrier_name,
             cells |-> ColumnCells(Head(entries), records, 1)] >>
         \o ComputeCarrierColumns(records, Tail(entries))

(***************************************************************************)
(* rating_pipeline.py: _build_shipment_updates                             *)
(***************************************************************************)
\* (mutant) an equal charge also replaces the best one
CheaperOrEqual(value, best_charge_float) == value <= best_charge_float

\* line 230: value < best_charge_float
Cheaper(value, best_charge_float) == value < best_charge_float

\* lines 227-233: the column kept by the scan of row idx from column k on;
\* `best` is None or the index of the column kept so far
RECURSIVE BestColumn(_, _, _, _)
BestColumn(columns, idx, k, best) ==
    IF k > Len(columns) THEN best
    ELSE LET value == columns[k].cells[idx]
         IN IF IsNone(value) THEN BestColumn(columns, idx, k + 1, best)
            ELSE IF IsNone(best) \/ Cheaper(Val(value), Val(columns[Val(best)].cells[idx]))
                 THEN BestColumn(columns, idx, k + 1, Some(k))
                 ELSE BestColumn(columns, idx, k + 1, best)

\* lines 235-240: expected_charge_per_carrier of row idx, from column k on
RECURSIVE ExpectedCharges(_, _, _, _)
ExpectedCharges(columns, idx, k, dict) ==
    IF k > Len(columns) THEN dict
    ELSE LET value == columns[k].cells[idx]
         IN IF IsNone(value) THEN ExpectedCharges(columns, idx, k + 1, dict)
            ELSE ExpectedCharges(columns, idx, k + 1,
                                 DictSet(dict, columns[k].carrier, Val(value)))

NoCharges == [c \in {} |-> 0]

\* (mutant) the difference is reported as it is
SavingsUnclamped(actual, best_charge_decimal) ==
    IF IsNone(best_charge_decimal) THEN 0 ELSE actual - Val(best_charge_decimal)

\* lines 243-250: savings, with actual = rec.actual_charge or Decimal("0")
SavingsVsActual(actual, best_charge_decimal) ==
    IF IsNone(best_charge_decimal) THEN 0
    ELSE IF actual > 0 /\ actual - Val(best_charge_decimal) > 0
         THEN actual - Val(best_charge_decimal)
         ELSE 0

\* (mutant) only a shipment billed a positive amount enters the two totals
InBestTotalsIfBilled(actual, best_charge_decimal) ==
    ~IsNone(best_charge_decimal) /\ actual > 0

\* lines 244, 252-253: best_charge_total and rerated_count are advanced for
\* every row that has a best charge, outside the `if actual > 0` block
InBestTotals(actual, best_charge_decimal) == ~IsNone(best_charge_decimal)

\* (mutant) the two unmatched statuses change places
TariffMatchStatusSwapped(best_charge_float, carrier_columns) ==
    IF ~IsNone(best_charge_float) THEN "MATCHED"
    ELSE IF carrier_columns # << >> THEN "NO_TARIFF" ELSE "NO_LANE"

\* lines 256-263: tariff_match_status
TariffMatchStatus(best_charge_float, carrier_columns) ==
    IF ~IsNone(best_charge_float) THEN "MATCHED"
    ELSE IF carrier_columns = << >> THEN "NO_TARIFF" ELSE "NO_LANE"

\* lines 222-276: the ShipmentRatingUpdate of record idx
ShipmentUpdate(records, columns, idx) ==
    LET rec == records[idx]
        best == BestColumn(columns, idx, 1, None)
        best_charge == IF IsNone(best) THEN None ELSE columns[Val(best)].cells[idx]
        actual == OrZero(rec.actual_charge)
    IN [shipment_id |-> rec.shipment_id,
        expected_charge_per_carrier |-> ExpectedCharges(columns, idx, 1, NoCharges),
        best_carrier |-> IF IsNone(best) THEN None ELSE Some(columns[Val(best)].carrier),
        best_charge |-> best_charge,
        savings_vs_actual |-> SavingsVsActual(actual, best_charge),
        tariff_match_status |-> TariffMatchStatus(best, columns),
        tariff_match_notes |->
            IF TariffMatchStatus(best, columns) = "MATCHED" THEN None
            ELSE IF TariffMatchStatus(best, columns) = "NO_TARIFF"
                 THEN Some(<< "No tariffs loaded for rating", None, None >>)
                 ELSE Some(<< "No lane found for", rec.dest_city, rec.dest_province >>)]

RECURSIVE UpdatesFrom(_, _, _)
UpdatesFrom(records, columns, idx) ==
    IF idx > Len(records) THEN << >>
    ELSE << ShipmentUpdate(records, columns, idx) >> \o UpdatesFrom(records, columns, idx + 1)

\* sum of f[i] over i in 1..n
RECURSIVE SumTo(_, _)
SumTo(f, n) == IF n = 0 THEN 0 ELSE f[n] + SumTo(f, n - 1)

\* _build_shipment_updates: the updates and the three running totals
BuildShipmentUpdates(records, columns) ==
    IF columns = << >>
    THEN [updates |-> << >>, carrier_savings_total |-> 0,
          best_charge_total |-> 0, rerated_count |-> 0]
    ELSE Only({
           LET n == Len(updates)
           IN [updates |-> updates,
               carrier_savings_total |->
                   SumTo([i \in 1..n |-> updates[i].savings_vs_actual], n),
               best_charge_total |->
                   SumTo([i \in 1..n |->
                            IF InBestTotals(OrZero(records[i].actual_charge),
                                            updates[i].best_charge)
                            THEN Val(updates[i].best_charge) ELSE 0], n),
               rerated_count |->
                   SumTo([i \in 1..n |->
                            IF InBestTotals(OrZero(records[i].actual_charge),
                                            updates[i].best_charge)
                            THEN 1 ELSE 0], n)] :
           updates \in { UpdatesFrom(records, columns, 1) } })

(***************************************************************************)
(* rating_pipeline.py: consolidation opportunities (weekly Mon-Thu mode)   *)
(*                                                                         *)
(* A ship date is [week, weekday]: the ISO (year, week) pair as one        *)
(* running week number, and date.weekday() with Monday = 0.                *)
(***************************************************************************)
TOP_OPPORTUNITIES == 15     \* opportunities[:15]

\* (mutant) Friday counts as well
IsMonFri(ship_date) == ship_date.weekday <= 4

\* _is_mon_thu
IsMonThu(ship_date) == ship_date.weekday <= 3

\* _get_week_key
GetWeekKey(ship_date) == ship_date.week

\* ship_date + timedelta(days)
AddDays(ship_date, days) ==
    [week |-> ship_date.week + (ship_date.weekday + days) \div 7,
     weekday |-> (ship_date.weekday + days) % 7]

\* by_key[key].append(idx) on the groups in their insertion order
RECURSIVE AppendToGroup(_, _, _)
AppendToGroup(groups, key, idx) ==
    IF groups = << >> THEN << [key |-> key, indices |-> << idx >>] >>
    ELSE IF Head(groups).key = key
         THEN << [Head(groups) EXCEPT !.indices = Append(@, idx)] >> \o Tail(groups)
         ELSE << Head(groups) >> \o AppendToGroup(Tail(groups), key, idx)

\* lines 341-355: the loop over the records, from record idx on
RECURSIVE GroupRecords(_, _, _)
GroupRecords(records, idx, groups) ==
    IF idx > Len(records) THEN groups
    ELSE LET rec == records[idx]
         IN IF IsNone(rec.ship_date) \/ DestProvinceKey(rec) = << >>
            THEN GroupRecords(records, idx + 1, groups)
            ELSE IF ~IsMonThu(Val(rec.ship_date))
            THEN GroupRecords(records, idx + 1, groups)
            ELSE GroupRecords(records, idx + 1,
                     AppendToGroup(groups,
                                   << OriginKey(rec), DestCityKey(rec), DestProvinceKey(rec),
                                      GetWeekKey(Val(rec.ship_date)) >>,
                                   idx))

\* entries_by_origin[origin_key]: the entries of that origin, in entry order
RECURSIVE EntriesOfOrigin(_, _)
EntriesOfOrigin(entries, origin_key) ==
    IF entries = << >> THEN << >>
    ELSE IF Normalize(Some(Head(entries).origin_dc)) = origin_key
         THEN << Head(entries) >> \o EntriesOfOrigin(Tail(entries), origin_key)
         ELSE EntriesOfOrigin(Tail(entries), origin_key)

\* (mutant) a later entry replaces the best one when it charges more
RECURSIVE ConsolidatedScanDearest(_, _, _, _, _, _, _, _)
ConsolidatedScanDearest(entries, k, dest_city, dest_province, billable_weight, pallets, weight, best) ==
    IF k > Len(entries) THEN best
    ELSE LET entry == entries[k]
             lane_cache == FindLane(entry, dest_city, dest_province)
             charge == IF IsNone(lane_cache) THEN None
                       ELSE IF entry.tariff_type = "cwt"
                            THEN RateCwtCached(billable_weight, Val(lane_cache), TRUE)
                            ELSE RateSkidSpotCached(pallets, weight, Val(lane_cache), TRUE)
             next == IF IsNone(charge) THEN best
                     ELSE IF IsNone(best) \/ Val(charge) > Val(best)[1]
                          THEN Some(<< Val(charge), entry.carrier_name >>)
                          ELSE best
         IN ConsolidatedScanDearest(entries, k + 1, dest_city, dest_province,
                                    billable_weight, pallets, weight, next)

\* the loop of _best_consolidated_charge from entry k on; best is None or
\* << best_charge, best_carrier >>
RECURSIVE ConsolidatedScan(_, _, _, _, _, _, _, _)
ConsolidatedScan(entries, k, dest_city, dest_province, billable_weight, pallets, weight, best) ==
    IF k > Len(entries) THEN best
    ELSE LET entry == entries[k]
             lane_cache == FindLane(entry, dest_city, dest_province)
             charge == IF IsNone(lane_cache) THEN None
                       ELSE IF entry.tariff_type = "cwt"
                            THEN RateCwtCached(billable_weight, Val(lane_cache), TRUE)
                            ELSE RateSkidSpotCached(pallets, weight, Val(lane_cache), TRUE)
             next == IF IsNone(charge) THEN best
                     ELSE IF IsNone(best) \/ Val(charge) < Val(best)[1]
                          THEN Some(<< Val(charge), entry.carrier_name >>)
                          ELSE best
         IN ConsolidatedScan(entries, k + 1, dest_city, dest_province,
                             billable_weight, pallets, weight, next)

BestConsolidatedCharge(origin_key, dest_city, dest_province, billable_weight, pallets, weight, entries) ==
    ConsolidatedScan(EntriesOfOrigin(entries, origin_key), 1, dest_city, dest_province,
                     billable_weight, pallets, weight, None)

\* `value or ""` for an Optional[str]
OrEmpty(value) == IF StrTruthy(value) THEN Val(value) ELSE << >>

\* (mutant) a group that saves nothing is kept
NoGainNegativeOnly(incremental) == incremental < 0

\* line 407: `if incremental <= 0`
NoGain(incremental) == incremental <= 0

\* (mutant) a member without a best charge adds nothing
IndividualBestNoFallback(update, rec) ==
    IF ~IsNone(update.best_charge) THEN Val(update.best_charge) ELSE 0

\* lines 379-382: what a member adds to individual_best_sum
IndividualBest(update, rec) ==
    IF ~IsNone(update.best_charge) THEN Val(update.best_charge)
    ELSE OrZero(rec.actual_charge)

\* lines 365-437 for one group: None when the group is discarded
GroupOpportunity(records, updates, entries, group) ==
    LET indices == group.indices
        n == Len(indices)
        first == records[indices[1]]
        actual_sum == SumTo([i \in 1..n |-> OrZero(records[indices[i]].actual_charge)], n)
        individual_best_sum ==
            SumTo([i \in 1..n |-> IndividualBest(updates[indices[i]], records[indices[i]])], n)
        pallets_total == SumTo([i \in 1..n |-> OrZero(records[indices[i]].pallets)], n)
        weight_total == SumTo([i \in 1..n |-> OrZero(records[indices[i]].weight)], n)
        dim_total == SumTo([i \in 1..n |-> OrZero(records[indices[i]].dim_weight)], n)
        billable == IF weight_total # 0 \/ dim_total # 0
                    THEN Some(Max2(weight_total, dim_total)) ELSE None
        found == BestConsolidatedCharge(group.key[1], first.dest_city, first.dest_province,
                                        billable, Some(pallets_total), Some(weight_total),
                                        entries)
    IN IF n < 2 \/ IsNone(found) THEN None
       ELSE IF NoGain(individual_best_sum - Val(found)[1]) THEN None
       ELSE Some([origin_dc |-> first.origin_dc,
                  dest_city |-> OrEmpty(first.dest_city),
                  dest_province |-> OrEmpty(first.dest_province),
                  ship_date |-> AddDays(Val(first.ship_date),
                                        (3 - Val(first.ship_date).weekday) % 7),
                  shipment_count |-> n,
                  actual_sum |-> actual_sum,
                  individual_best_sum |-> individual_best_sum,
                  consolidated_charge |-> Val(found)[1],
                  incremental_savings |-> individual_best_sum - Val(found)[1],
                  carrier |-> Some(Val(found)[2])])

\* the loop over by_key.items(): the opportunities appended, in group order
RECURSIVE Opportunities(_, _, _, _)
Opportunities(records, updates, entries, groups) ==
    IF groups = << >> THEN << >>
    ELSE LET opp == GroupOpportunity(records, updates, entries, Head(groups))
         IN (IF IsNone(opp) THEN << >> ELSE << Val(opp) >>)
            \o Opportunities(records, updates, entries, Tail(groups))

\* (mutant) the sort is ascending
RECURSIVE InsertBySavingsAscending(_, _)
InsertBySavingsAscending(opp, sorted) ==
    IF sorted = << >> THEN << opp >>
    ELSE IF opp.incremental_savings <= Head(sorted).incremental_savings
         THEN << opp >> \o sorted
         ELSE << Head(sorted) >> \o InsertBySavingsAscending(opp, Tail(sorted))

\* opportunities.sort(key=incremental_savings, reverse=True): stable, equal
\* savings keep their order
RECURSIVE InsertBySavings(_, _)
InsertBySavings(opp, sorted) ==
    IF sorted = << >> THEN << opp >>
    ELSE IF opp.incremental_savings >= Head(sorted).incremental_savings
         THEN << opp >> \o sorted
         ELSE << Head(sorted) >> \o InsertBySavings(opp, Tail(sorted))

RECURSIVE SortBySavings(_)
SortBySavings(opps) ==
    IF opps = << >> THEN << >>
    ELSE InsertBySavings(Head(opps), SortBySavings(Tail(opps)))

\* lines 439-440: the sort and opportunities[:15]
TopOpportunities(opps) ==
    SubSeq(SortBySavings(opps), 1, Min2(TOP_OPPORTUNITIES, Len(opps)))

\* (mutant) the total and the count are taken from the list that is returned
ComputeConsolidationReturnedOnly(records, updates, entries) ==
    Only({
      LET n == Len(top)
      IN [consolidation_savings_total |->
              SumTo([i \in 1..n |-> top[i].incremental_savings], n),
          consolidation_groups |-> top,
          consolidation_group_count |-> n] :
      top \in { TopOpportunities(Opportunities(records, updates, entries,
                                               GroupRecords(records, 1, << >>))) } })

\* _compute_consolidation_opportunities
ComputeConsolidationOpportunities(records, updates, entries) ==
    Only({
      LET n == Len(opps)
      IN [consolidation_savings_total |->
              SumTo([i \in 1..n |-> opps[i].incremental_savings], n),
          consolidation_groups |-> TopOpportunities(opps),
          consolidation_group_count |-> n] :
      opps \in { Opportunities(records, updates, entries, GroupRecords(records, 1, << >>)) } })

(***************************************************************************)
(* The functions applied one at a time to bounded inputs                   *)
(***************************************************************************)
MaxOpportunities == 17

\* an opportunity of the given savings; the week tells the groups apart
OpportunityOf(week, savings) ==
    [origin_dc |-> OriginXA,
     dest_city |-> CityTO,
     dest_province |-> ON,
     ship_date |-> [week |-> week, weekday |-> 3],
     shipment_count |-> 2,
     actual_sum |-> savings + Dollars(150),
     individual_best_sum |-> savings + Dollars(100),
     consolidated_charge |-> Dollars(100),
     incremental_savings |-> savings,
     carrier |-> Some("ALPHA")]

\* lists of surviving groups in by_key order, up to MaxOpportunities long:
\* the i-th saves $1 + ((a * i + b) mod m), which gives rising, falling and
\* mixed orders, with ties (m = 4, 7) and without (m = 19)
OpportunityLists ==
    { [i \in 1..n |-> OpportunityOf(i, Dollars(1 + ((a * i + b) % m)))] :
        n \in 0..MaxOpportunities, a \in {1, 3, 6}, b \in {0, 2}, m \in {4, 7, 19} }

ApplyTopOpportunities ==
    /\ fn = "none"
    /\ \E opps \in OpportunityLists :
          /\ arg' = [opportunities |-> opps]
          /\ out' = [top_opportunities |-> TopOpportunities(opps)]
    /\ fn' = "top_opportunities"
    /\ UNCHANGED << cacheVars, runVars >>

(***************************************************************************)
(* tariff_ingestion.py: the break rows parse_cwt_tariff writes for a lane  *)
(***************************************************************************)
\* lines 428-447: column label -> (from_weight, to_weight) in pounds
STANDARD_BREAK_RANGES ==
    (<< "L", "T", "L" >> :> << 0, Some(500) >>) @@
    (<< "L", "5", "C", "W", "T" >> :> << 0, Some(500) >>) @@
    (<< "5", "0", "0" >> :> << 500, Some(1000) >>) @@
    (<< "5", "C", "W", "T" >> :> << 500, Some(1000) >>) @@
    (<< "1", "0", "0", "0" >> :> << 1000, Some(2000) >>) @@
    (<< "1", "0", "C", "W", "T" >> :> << 1000, Some(2000) >>) @@
    (<< "2", "0", "0", "0" >> :> << 2000, Some(5000) >>) @@
    (<< "2", "0", "C", "W", "T" >> :> << 2000, Some(5000) >>) @@
    (<< "3", "0", "0", "0" >> :> << 3000, Some(5000) >>) @@
    (<< "3", "0", "C", "W", "T" >> :> << 3000, Some(5000) >>) @@
    (<< "5", "0", "0", "0" >> :> << 5000, Some(10000) >>) @@
    (<< "5", "0", "C", "W", "T" >> :> << 5000, Some(10000) >>) @@
    (<< "1", "0", "0", "0", "0" >> :> << 10000, None >>) @@
    (<< "1", "0", "0", "C", "W", "T" >> :> << 10000, Some(20000) >>) @@
    (<< "2", "0", "0", "C", "W", "T" >> :> << 20000, Some(30000) >>) @@
    (<< "3", "0", "0", "C", "W", "T" >> :> << 30000, Some(50000) >>) @@
    (<< "5", "0", "0", "C", "W", "T" >> :> << 50000, Some(100000) >>) @@
    (<< "1", "0", "0", "0", "C", "W", "T" >> :> << 100000, None >>)

Digits == << "0", "1", "2", "3", "4", "5", "6", "7", "8", "9" >>

\* str.isdigit()
IsDigitStr(str) ==
    /\ str # << >>
    /\ \A i \in DOMAIN str : \E d \in DOMAIN Digits : Digits[d] = str[i]

\* int(col_str) of a string of digits
RECURSIVE IntOf(_)
IntOf(str) ==
    IF str = << >> THEN 0
    ELSE 10 * IntOf(SubSeq(str, 1, Len(str) - 1))
         + ((CHOOSE d \in DOMAIN Digits : Digits[d] = str[Len(str)]) - 1)

\* lines 473-484: the range inferred from a numeric column name
InferredRange(weight_val) ==
    IF weight_val < 500 THEN << 0, Some(500) >>
    ELSE IF weight_val < 1000 THEN << 500, Some(1000) >>
    ELSE IF weight_val < 2000 THEN << 1000, Some(2000) >>
    ELSE IF weight_val < 5000 THEN << 2000, Some(5000) >>
    ELSE IF weight_val < 10000 THEN << 5000, Some(10000) >>
    ELSE << 10000, None >>

\* a break definition: a column label (from and to absent) or a configured
\* dict {"column", "from", "to"}
BreakDef(column, from, to) == [column |-> column, from |-> from, to |-> to]

\* lines 449-498, one pass of the loop: the TariffBreak rows so far plus the
\* row for break_def, if it gets one; rate = None is a blank (NaN) cell
BreakRowsWith(rows, break_def, rate) ==
    LET col_str == Strip(Upper(break_def.column))
        explicit == ~IsNone(break_def.from) /\ ~IsNone(break_def.to)
        std == col_str \in DOMAIN STANDARD_BREAK_RANGES
        range == IF std THEN STANDARD_BREAK_RANGES[col_str]
                 ELSE InferredRange(IntOf(col_str))
        \* lines 467-470 and 475-484: the standard range fills only what the
        \* definition left out, the inferred range replaces both ends
        from_weight == IF explicit \/ (std /\ ~IsNone(break_def.from))
                       THEN break_def.from ELSE Some(range[1])
        to_weight == IF explicit \/ (std /\ ~IsNone(break_def.to))
                     THEN break_def.to ELSE range[2]
    IN IF IsNone(rate) THEN rows
       ELSE IF ~explicit /\ ~std /\ ~IsDigitStr(col_str) THEN rows
       ELSE Append(rows, [break_from_weight |-> Some(Lb(OrZero(from_weight))),
                          break_to_weight |-> IF IsNone(to_weight) THEN None
                                              ELSE Some(Lb(Val(to_weight))),
                          rate_per_cwt |-> rate,
                          num_spots |-> None, spot_charge |-> None])

\* the loop over resolved_break_columns for one sheet row, from column i on
RECURSIVE ParseCwtBreaks(_, _, _, _)
ParseCwtBreaks(rows, break_columns, rates, i) ==
    IF i > Len(break_columns) THEN rows
    ELSE ParseCwtBreaks(BreakRowsWith(rows, break_columns[i], rates[i]),
                        break_columns, rates, i + 1)

ColumnDefs(labels) == [i \in 1..Len(labels) |-> BreakDef(labels[i], None, None)]

\* lines 509-510 and 516-517: ingest_rosedale_tariff, ingest_maritime_ontario_tariff
ROSEDALE_BREAK_COLS ==
    << << "L", "5", "C", "W", "T" >>,
       << "5", "C", "W", "T" >>,
       << "1", "0", "C", "W", "T" >>,
       << "2", "0", "C", "W", "T" >>,
       << "3", "0", "C", "W", "T" >>,
       << "5", "0", "C", "W", "T" >>,
       << "1", "0", "0", "C", "W", "T" >>,
       << "2", "0", "0", "C", "W", "T" >>,
       << "3", "0", "0", "C", "W", "T" >>,
       << "5", "0", "0", "C", "W", "T" >>,
       << "1", "0", "0", "0", "C", "W", "T" >> >>

\* lines 523 and 529: ingest_guilbault_tariff, ingest_cff_tariff
GUILBAULT_BREAK_COLS ==
    << << "L", "T", "L" >>,
       << "5", "0", "0" >>,
       << "1", "0", "0", "0" >>,
       << "2", "0", "0", "0" >>,
       << "5", "0", "0", "0" >>,
       << "1", "0", "0", "0", "0" >> >>

\* a sheet with an "LTL" column, numeric columns outside the standard table,
\* one of them with blanks around it, and a column that is no break
NUMERIC_BREAK_COLS ==
    << << "L", "T", "L" >>, << " ", "7", "5", "0", " " >>, << "1", "5", "0", "0" >>,
       << "9", "9", "9", "9", "9" >>, << "T", "A", "X" >> >>

\* a configured mapping: two columns with both ends given, one with only the
\* start given
CONFIGURED_BREAKS ==
    << BreakDef(<< "A" >>, Some(0), Some(1000)),
       BreakDef(<< "X" >>, Some(1000), Some(5000)),
       BreakDef(<< "1", "0", "0", "0", "0" >>, Some(5000), None) >>

BreakColumnLists ==
    { ColumnDefs(ROSEDALE_BREAK_COLS), ColumnDefs(GUILBAULT_BREAK_COLS),
      ColumnDefs(NUMERIC_BREAK_COLS), CONFIGURED_BREAKS }

MaxBlankRates == 2

\* the rate cells of a sheet row: column i holds $(40 - 2i)/cwt unless blank
RateCells(n, blank) == [i \in 1..n |-> IF i \in blank THEN None ELSE Some(PerCwt(40 - 2 * i))]

ApplyParseCwtBreaks ==
    /\ fn = "none"
    /\ \E break_columns \in BreakColumnLists :
          \E blank \in { b \in SUBSET (1..Len(break_columns)) : Cardinality(b) <= MaxBlankRates } :
             \E rates \in { RateCells(Len(break_columns), blank) } :
                \E rows \in { ParseCwtBreaks(<< >>, break_columns, rates, 1) } :
                   /\ arg' = [break_columns |-> break_columns, rates |-> rates]
                   /\ out' = [breaks |-> rows,
                              lane_cache |-> BuildLaneCache(LaneRow(None, ON, Some(Dollars(45)),
                                                                    rows))]
    /\ fn' = "parse_cwt_breaks"
    /\ UNCHANGED << cacheVars, runVars >>

(***************************************************************************)
(* _compute_consolidation_opportunities on passes of many groups           *)
(***************************************************************************)
MaxWeeks == 18

\* a shipment from XA to Toronto, billed $400
WeekRow(week, weekday, n, lb) ==
    ShipmentRow(<< "w", week, n >>, Some(OriginXA), Some(CityTO), Some(ON),
                ShipDate(week, weekday), Some(100), Some(Lb(lb)), None,
                Some(Dollars(400)))

\* the shipments of one week: "pair" two shipments that are cheaper together,
\* "nogain" two shipments of 1,500 lb, which cost together what they cost
\* apart, "single" one shipment, "weekend" a Monday and a Friday shipment
WeekRows(week, kind) ==
    IF kind = "pair"
    THEN << WeekRow(week, 0, 1, 100 + 100 * (week % 3)),
            WeekRow(week, 2, 2, 100 + 100 * (week % 2)) >>
    ELSE IF kind = "nogain"
    THEN << WeekRow(week, 0, 1, 1500), WeekRow(week, 1, 2, 1500) >>
    ELSE IF kind = "single"
    THEN << WeekRow(week, 3, 1, 300) >>
    ELSE << WeekRow(week, 0, 1, 300), WeekRow(week, 4, 2, 300) >>

\* every `every`-th week is of one of the discarded kinds, the others are pairs
WeekKind(week, every) ==
    IF every = 0 \/ week % every # 0 THEN "pair"
    ELSE IF (week \div every) % 3 = 1 THEN "nogain"
    ELSE IF (week \div every) % 3 = 2 THEN "single"
    ELSE "weekend"

RECURSIVE ManyWeeks(_, _)
ManyWeeks(weeks, every) ==
    IF weeks = 0 THEN << >>
    ELSE ManyWeeks(weeks - 1, every) \o WeekRows(weeks, WeekKind(weeks, every))

ApplyComputeConsolidation ==
    /\ fn = "none"
    /\ \E weeks \in 0..MaxWeeks, every \in {0, 2, 7} :
          \E records \in { LoadRecords(ManyWeeks(weeks, every)) },
             entries \in { << TariffCacheEntry(TariffAlpha) >> } :
             \E built \in { BuildShipmentUpdates(records,
                                 ComputeCarrierColumns(records, entries)) } :
                /\ arg' = [records |-> records, entries |-> entries,
                           updates |-> built.updates]
                /\ out' = [compute_consolidation |->
                              ComputeConsolidationOpportunities(records, built.updates,
                                                                entries)]
    /\ fn' = "compute_consolidation"
    /\ UNCHANGED << cacheVars, runVars >>

NextFn ==
    \/ ApplyFindLane
    \/ ApplyRateCwt
    \/ ApplyRateSkid
    \/ ApplySelectBillable
    \/ ApplyFindBest
    \/ ApplyTopOpportunities
    \/ ApplyParseCwtBreaks
    \/ ApplyComputeConsolidation

SpecFn == InitFn /\ [][NextFn]_vars

(***************************************************************************)
(* rating_pipeline.py: run_vectorized_rerate                               *)
(***************************************************************************)
\* lines 448-456: the result for an audit run without shipments
EmptyRerateResult ==
    [shipment_updates |-> << >>,
     carrier_savings_total |-> 0,
     carrier_best_total |-> 0,
     rerated_count |-> 0,
     consolidation_savings_total |-> 0,
     consolidation_groups |-> << >>,
     consolidation_group_count |-> 0]

\* lines 462-479: the result for a non-empty tariff set
RerateResult(records, entries) ==
    Only({ Only({ Only({
      [shipment_updates |-> built.updates,
       carrier_savings_total |-> built.carrier_savings_total,
       carrier_best_total |-> built.best_charge_total,
       rerated_count |-> built.rerated_count,
       consolidation_savings_total |-> cons.consolidation_savings_total,
       consolidation_groups |-> cons.consolidation_groups,
       consolidation_group_count |-> cons.consolidation_group_count] :
        cons \in { ComputeConsolidationOpportunities(records, built.updates, entries) } }) :
        built \in { BuildShipmentUpdates(records, columns) } }) :
        columns \in { ComputeCarrierColumns(records, entries) } })

\* (mutant) a run without shipments is not detected
NotRecordsNever(records) == FALSE

\* line 447: `if not records`
NotRecords(records) == records = << >>

NO_TARIFFS_ERROR == "No tariffs available for re-rating"

\* (mutant) an empty tariff set is not detected
NotEntriesNever(entries) == FALSE

\* line 459: `if not entries`
NotEntries(entries) == entries = << >>

\* (mutant) the filter narrows the snapshot's own entry list
SnapshotFilteredInPlace(cache, tariff_ids) ==
    [cache EXCEPT !.entries = FilterTariffEntries(cache, tariff_ids)]

\* (mutant) the pass reverses the snapshot's own entry list
SnapshotReversedInPlace(cache, tariff_ids) ==
    [cache EXCEPT !.entries = [i \in 1..Len(cache.entries) |->
                                 cache.entries[Len(cache.entries) + 1 - i]]]

\* the snapshot object as a pass leaves it. _filter_tariff_entries returns a
\* new list when it filters and cache.entries itself otherwise; the column,
\* update and consolidation code only iterates over that list and reads the
\* entries' dicts and the lanes' fields, and find_lane and the two rating
\* functions build new values (sorted() copies): nothing is assigned
SnapshotAfterPass(cache, tariff_ids) == cache

(***************************************************************************)
(* audit_engine.py: rerate_audit, and the handlers around it               *)
(***************************************************************************)
MaxRerates == 2
MaxBuilds == 2

\* the snapshots get_tariff_cache(db, force_reload) can return to a caller
\* that finds the lock free, with whether it ran _load_tariff_cache
TariffCachesReturned(force_reload) ==
    IF ShouldReload(force_reload, TARIFF_CACHE, now)
    THEN { [cache |-> LoadTariffCache(rows, now, buildSeq + 1), reloaded |-> TRUE] :
             rows \in RowOrders(tariffDb) }
    ELSE { [cache |-> Val(TARIFF_CACHE), reloaded |-> FALSE] }

\* (mutant) only a shipment without a stored result gets the update's values
RECURSIVE StoreUpdatesInsertOnly(_, _, _)
StoreUpdatesInsertOnly(results, rows, updates) ==
    IF updates = << >> THEN results
    ELSE LET update == Head(updates)
             hits == { i \in 1..Len(rows) : rows[i].id = update.shipment_id }
             row == [expected_charge_per_carrier |-> update.expected_charge_per_carrier,
                     best_carrier |-> update.best_carrier,
                     best_charge |-> update.best_charge,
                     savings_vs_actual |-> update.savings_vs_actual,
                     tariff_match_status |-> update.tariff_match_status,
                     tariff_match_notes |-> update.tariff_match_notes]
         IN StoreUpdatesInsertOnly([i \in 1..Len(rows) |->
                                      IF i \in hits /\ IsNone(results[i])
                                      THEN Some(row) ELSE results[i]],
                                   rows, Tail(updates))

\* lines 267-294: the audit_results rows after the updates are written; a
\* row is created for a shipment that has none
RECURSIVE StoreUpdates(_, _, _)
StoreUpdates(results, rows, updates) ==
    IF updates = << >> THEN results
    ELSE LET update == Head(updates)
             hits == { i \in 1..Len(rows) : rows[i].id = update.shipment_id }
             row == [expected_charge_per_carrier |-> update.expected_charge_per_carrier,
                     best_carrier |-> update.best_carrier,
                     best_charge |-> update.best_charge,
                     savings_vs_actual |-> update.savings_vs_actual,
                     tariff_match_status |-> update.tariff_match_status,
                     tariff_match_notes |-> update.tariff_match_notes]
         IN StoreUpdates([i \in 1..Len(rows) |-> IF i \in hits THEN Some(row) ELSE results[i]],
                         rows, Tail(updates))

\* lines 308-339: the keys rerate_audit writes into audit_run.summary_metrics
\* (the wall-clock timings are left out)
SummaryMetrics(result) ==
    [carrier_savings_total |-> result.carrier_savings_total,
     carrier_best_total |-> result.carrier_best_total,
     consolidation_savings_total |-> result.consolidation_savings_total,
     total_opportunity |-> result.carrier_savings_total + result.consolidation_savings_total,
     consolidation_groups |-> result.consolidation_groups,
     consolidation_group_count |-> result.consolidation_group_count,
     theoretical_savings |-> result.carrier_savings_total + result.consolidation_savings_total]

\* lines 345-352: the dict rerate_audit returns
RerateSummary(result) ==
    [rerated_shipments |-> result.rerated_count,
     total_potential_savings |-> result.carrier_savings_total,
     total_best_charge |-> result.carrier_best_total,
     consolidation_savings |-> result.consolidation_savings_total,
     total_opportunity |-> result.carrier_savings_total + result.consolidation_savings_total,
     top_consolidation |-> result.consolidation_groups]

\* the outcome of a rerate_audit call as the model records it; snapshot_build
\* is the identity of the snapshot the call rated against (0: it asked for
\* none)
Outcome(call, tariff_ids, reloaded, status, error, result, snapshot_build) ==
    [call |-> call, tariff_ids |-> tariff_ids, reloaded |-> reloaded,
     status |-> status, error |-> error,
     result |-> result,
     returned |-> IF IsNone(result) THEN None ELSE Some(RerateSummary(Val(result))),
     snapshot_build |-> snapshot_build,
     \* (history) the call before it succeeded with the same tariff_ids on
     \* the same snapshot
     repeated |-> /\ lastRerate.status = "ok"
                  /\ lastRerate.tariff_ids = tariff_ids
                  /\ lastRerate.snapshot_build = snapshot_build,
     \* (history) the call changed a value an earlier call had stored
     superseded |-> /\ ~IsNone(result)
                    /\ \E stored \in { StoreUpdates(auditResults, shipments,
                                                    Val(result).shipment_updates) } :
                          \E i \in DOMAIN auditResults :
                             ~IsNone(auditResults[i]) /\ stored[i] # auditResults[i]]

NoRerate ==
    [call |-> 0, tariff_ids |-> None, reloaded |-> FALSE, status |-> "none", error |-> "",
     result |-> None, returned |-> None, snapshot_build |-> 0, repeated |-> FALSE,
     superseded |-> FALSE]

\* AuditRunStatus
CREATED == "created"
PROCESSING == "processing"
COMPLETED == "completed"
FAILED == "failed"

\* an audit run nobody has run yet. status is the committed column; pc is
\* where run_audit stands, outcome how its last call ended, began whether
\* that call got past line 72, session whether the database session can still
\* execute statements, runs the number of calls so far
NewAuditRun ==
    [status |-> CREATED, pc |-> "idle", outcome |-> "none", began |-> FALSE,
     session |-> "usable", runs |-> 0]

\* no pass is running
NoPass ==
    [pc |-> "idle", tariff_ids |-> None, snapshot |-> None, entries |-> << >>,
     build |-> 0, reloaded |-> FALSE, built |-> None, overtaken |-> FALSE]

\* rerate_audit(db, audit_run_id, tariff_ids), run by one request with no
\* other get_tariff_cache caller active
RerateAudit(tariff_ids) ==
    /\ lastRerate.call < MaxRerates
    /\ LockFree
    /\ \E records \in { LoadRecords(shipments) }, call \in { lastRerate.call + 1 } :
          IF NotRecords(records)
          THEN \* lines 447-456: no snapshot is requested
               /\ lastRerate' = Outcome(call, tariff_ids, FALSE, "ok", "",
                                        Some(EmptyRerateResult), 0)
               /\ auditResults' = StoreUpdates(auditResults, shipments, << >>)
               /\ summary_metrics' = Some(SummaryMetrics(EmptyRerateResult))
               /\ UNCHANGED << TARIFF_CACHE, buildSeq >>
          ELSE \E got \in TariffCachesReturned(FALSE) :
                 \E entries \in { FilterTariffEntries(got.cache, tariff_ids) } :
                    /\ got.reloaded => buildSeq < MaxBuilds
                    /\ buildSeq' = IF got.reloaded THEN buildSeq + 1 ELSE buildSeq
                    /\ TARIFF_CACHE' = Some(SnapshotAfterPass(got.cache, tariff_ids))
                    /\ IF NotEntries(entries)
                       THEN \* lines 459-460: the ValueError leaves rerate_audit
                            \* at line 264
                            /\ lastRerate' = Outcome(call, tariff_ids, got.reloaded,
                                                     "error", NO_TARIFFS_ERROR, None,
                                                     got.cache.build)
                            /\ UNCHANGED << auditResults, summary_metrics >>
                       ELSE \E result \in { RerateResult(records, entries) } :
                               /\ lastRerate' = Outcome(call, tariff_ids, got.reloaded,
                                                        "ok", "", Some(result),
                                                        got.cache.build)
                               /\ auditResults' = StoreUpdates(auditResults, shipments,
                                                               result.shipment_updates)
                               /\ summary_metrics' = Some(SummaryMetrics(result))
    /\ UNCHANGED << now, tariffDb, CACHE_LOCK, pc, force, ret, seenBuild, didBuild,
                    callsLeft, shipments, pass, audit_run >>
    /\ UNCHANGED fnVars

\* POST /tariffs/refresh-cache: get_tariff_cache(db, force_reload=True)
RefreshTariffCache ==
    /\ LockFree
    /\ buildSeq < MaxBuilds
    /\ \E got \in TariffCachesReturned(TRUE) : TARIFF_CACHE' = Some(got.cache)
    /\ buildSeq' = buildSeq + 1
    /\ UNCHANGED << now, tariffDb, CACHE_LOCK, pc, force, ret, seenBuild, didBuild,
                    callsLeft >>
    /\ UNCHANGED << fnVars, runVars >>

\* tariff ingestion commits new rows to the tariff tables
IngestTariffs ==
    /\ \E db \in TariffDbs \ {tariffDb} : tariffDb' = db
    /\ UNCHANGED << now, TARIFF_CACHE, CACHE_LOCK, pc, force, ret, seenBuild,
                    didBuild, buildSeq, callsLeft >>
    /\ UNCHANGED << fnVars, runVars >>

InitRun ==
    /\ now = 0
    /\ tariffDb \in TariffDbs
    /\ TARIFF_CACHE = None
    /\ CACHE_LOCK = 0
    /\ pc = [t \in Callers |-> "idle"]
    /\ force = [t \in Callers |-> FALSE]
    /\ ret = [t \in Callers |-> None]
    /\ seenBuild = [t \in Callers |-> 0]
    /\ didBuild = [t \in Callers |-> FALSE]
    /\ buildSeq = 0
    /\ callsLeft = 0
    /\ IdleFn
    /\ shipments \in ShipmentLists
    /\ auditResults = [i \in 1..Len(shipments) |-> None]
    /\ lastRerate = NoRerate
    /\ summary_metrics = None
    /\ pass = NoPass
    /\ audit_run = NewAuditRun

\* the clock stands still here: a snapshot is rebuilt when there is none or on
\* a forced refresh; rebuilds by age are explored by SpecCache
NextRun ==
    \/ \E tariff_ids \in TariffIdInputs : RerateAudit(tariff_ids)
    \/ RefreshTariffCache
    \/ IngestTariffs

SpecRun == InitRun /\ [][NextRun]_vars

(***************************************************************************)
(* run_audit(db, audit_run_id) on an existing audit run                    *)
(***************************************************************************)
MaxAudits == 2

\* lines 141-150: the summary (the spend and weight totals are left out)
AuditSummary(rows) == [shipment_count |-> Len(rows)]

\* lines 67-72: the run is found, status = PROCESSING is committed; when the
\* commit raises, the exception leaves run_audit (line 72 is outside the try)
RunAuditBegin ==
    /\ audit_run.pc = "idle"
    /\ audit_run.runs < MaxAudits
    /\ \E committed \in BOOLEAN :
          audit_run' = IF committed
                       THEN [audit_run EXCEPT !.status = PROCESSING, !.pc = "computing",
                                              !.outcome = "none", !.began = TRUE,
                                              !.session = "usable", !.runs = @ + 1]
                       ELSE [audit_run EXCEPT !.pc = "ended", !.outcome = "raised",
                                              !.began = FALSE, !.session = "usable",
                                              !.runs = @ + 1]
    /\ UNCHANGED << cacheVars, fnVars, shipments, auditResults, lastRerate,
                    summary_metrics, pass >>

\* an exception inside the try block (lines 74-157) reaches line 159. session
\* tells whether statements can still be executed: not after a statement
\* failed in a transaction or the connection was lost
RunAuditRaised(session) ==
    /\ audit_run' = [audit_run EXCEPT !.pc = "handling", !.session = session]
    /\ UNCHANGED << auditResults, summary_metrics >>

\* lines 74-157: the try block. The audit_results rows it creates or updates
\* get cost_per_lb, cost_per_pallet and flags; their rating columns, which are
\* what auditResults holds, are not written
RunAuditCompute ==
    /\ audit_run.pc = "computing"
    /\ \/ \* lines 81-89: no shipments
          /\ shipments = << >>
          /\ audit_run' = [audit_run EXCEPT !.status = COMPLETED, !.pc = "ended",
                                            !.outcome = "returned"]
          /\ UNCHANGED << auditResults, summary_metrics >>
       \/ \* lines 91-157
          /\ shipments # << >>
          /\ audit_run' = [audit_run EXCEPT !.status = COMPLETED, !.pc = "ended",
                                            !.outcome = "returned"]
          /\ summary_metrics' = Some(AuditSummary(shipments))
          /\ UNCHANGED auditResults
       \/ \* a query or a commit raises
          RunAuditRaised("broken")
       \/ \* the computation raises
          /\ shipments # << >>
          /\ RunAuditRaised("usable")
    /\ UNCHANGED << cacheVars, fnVars, shipments, lastRerate, pass >>

\* lines 159-162: status = FAILED, commit, raise; when the commit raises, its
\* exception leaves run_audit in place of the first one
RunAuditHandle ==
    /\ audit_run.pc = "handling"
    /\ audit_run' = [audit_run EXCEPT
                        !.status = IF audit_run.session = "usable" THEN FAILED ELSE @,
                        !.pc = "ended", !.outcome = "raised"]
    /\ UNCHANGED << cacheVars, fnVars, shipments, auditResults, lastRerate,
                    summary_metrics, pass >>

\* the request is over; the run can be run again
RunAuditEnd ==
    /\ audit_run.pc = "ended"
    /\ audit_run' = [audit_run EXCEPT !.pc = "idle"]
    /\ UNCHANGED << cacheVars, fnVars, shipments, auditResults, lastRerate,
                    summary_metrics, pass >>

NextAudit ==
    \/ RunAuditBegin
    \/ RunAuditCompute
    \/ RunAuditHandle
    \/ RunAuditEnd
    \/ RerateAudit(None)

SpecAudit == InitRun /\ [][NextAudit]_vars

(***************************************************************************)
(* A rerate pass step by step, with other requests running between its     *)
(* steps                                                                   *)
(***************************************************************************)
\* (mutant) the step asks get_tariff_cache's module variable again
PassEntriesReread(p, cache) ==
    IF IsNone(cache) THEN << >> ELSE FilterTariffEntries(Val(cache), p.tariff_ids)

\* the list `entries` of run_vectorized_rerate (line 458) as lines 462-469
\* read it: the local variable, whatever _TARIFF_CACHE refers to by then.
\* _load_tariff_cache builds new entry, lane and break objects (lines
\* 105-130) and get_tariff_cache rebinds _TARIFF_CACHE (line 141); the
\* objects the list refers to are not written
PassEntries(p, cache) == p.entries

\* lines 446-460: the records are loaded and the snapshot is asked for, once.
\* One pass is followed from its first step to its last
PassBegin(tariff_ids) ==
    /\ pass.pc = "idle"
    /\ lastRerate = NoRerate
    /\ LockFree
    /\ \E records \in { LoadRecords(shipments) }, call \in { lastRerate.call + 1 } :
          IF NotRecords(records)
          THEN /\ lastRerate' = Outcome(call, tariff_ids, FALSE, "ok", "",
                                        Some(EmptyRerateResult), 0)
               /\ auditResults' = StoreUpdates(auditResults, shipments, << >>)
               /\ summary_metrics' = Some(SummaryMetrics(EmptyRerateResult))
               /\ pass' = NoPass
               /\ UNCHANGED << TARIFF_CACHE, buildSeq >>
          ELSE \E got \in TariffCachesReturned(FALSE) :
                 \E entries \in { FilterTariffEntries(got.cache, tariff_ids) } :
                    /\ got.reloaded => buildSeq < MaxBuilds
                    /\ buildSeq' = IF got.reloaded THEN buildSeq + 1 ELSE buildSeq
                    /\ TARIFF_CACHE' = Some(got.cache)
                    /\ IF NotEntries(entries)
                       THEN /\ lastRerate' = Outcome(call, tariff_ids, got.reloaded,
                                                     "error", NO_TARIFFS_ERROR, None,
                                                     got.cache.build)
                            /\ pass' = NoPass
                            /\ UNCHANGED << auditResults, summary_metrics >>
                       ELSE /\ pass' = [pc |-> "rating", tariff_ids |-> tariff_ids,
                                        snapshot |-> Some(got.cache),
                                        entries |-> entries, build |-> got.cache.build,
                                        reloaded |-> got.reloaded, built |-> None,
                                        overtaken |-> FALSE]
                            /\ UNCHANGED << lastRerate, auditResults, summary_metrics >>
    /\ UNCHANGED << now, tariffDb, CACHE_LOCK, pc, force, ret, seenBuild, didBuild,
                    callsLeft, shipments, audit_run >>
    /\ UNCHANGED fnVars

\* lines 462-466: the carrier columns and the shipment updates
PassRate ==
    /\ pass.pc = "rating"
    /\ \E records \in { LoadRecords(shipments) } :
          \E columns \in { ComputeCarrierColumns(records, PassEntries(pass, TARIFF_CACHE)) } :
             \E built \in { BuildShipmentUpdates(records, columns) } :
                pass' = [pass EXCEPT !.pc = "consolidating", !.built = Some(built)]
    /\ UNCHANGED << cacheVars, fnVars, shipments, auditResults, lastRerate,
                    summary_metrics, audit_run >>

\* lines 467-479 and rerate_audit lines 267-352: the consolidation
\* opportunities, then the result is stored and returned
PassFinish ==
    /\ pass.pc = "consolidating"
    /\ \E records \in { LoadRecords(shipments) }, built \in { Val(pass.built) } :
          \E cons \in { ComputeConsolidationOpportunities(records, built.updates,
                                                          PassEntries(pass, TARIFF_CACHE)) } :
             \E result \in { [shipment_updates |-> built.updates,
                              carrier_savings_total |-> built.carrier_savings_total,
                              carrier_best_total |-> built.best_charge_total,
                              rerated_count |-> built.rerated_count,
                              consolidation_savings_total |-> cons.consolidation_savings_total,
                              consolidation_groups |-> cons.consolidation_groups,
                              consolidation_group_count |-> cons.consolidation_group_count] } :
                /\ lastRerate' = Outcome(lastRerate.call + 1, pass.tariff_ids, pass.reloaded,
                                         "ok", "", Some(result), pass.build)
                /\ auditResults' = StoreUpdates(auditResults, shipments,
                                                result.shipment_updates)
                /\ summary_metrics' = Some(SummaryMetrics(result))
    /\ pass' = [pass EXCEPT !.pc = "done",
                            !.overtaken = Val(TARIFF_CACHE).build # pass.build]
    /\ UNCHANGED << cacheVars, fnVars, shipments, audit_run >>

\* the pass is between its steps
PassRunning == pass.pc \in {"rating", "consolidating"}

\* another request calls get_tariff_cache(db) when the snapshot is older
\* than the TTL
RebuildByAge ==
    /\ LockFree
    /\ ~IsNone(TARIFF_CACHE)
    /\ ShouldReload(FALSE, TARIFF_CACHE, now)
    /\ buildSeq < MaxBuilds
    /\ \E got \in TariffCachesReturned(FALSE) : TARIFF_CACHE' = Some(got.cache)
    /\ buildSeq' = buildSeq + 1
    /\ UNCHANGED << now, tariffDb, CACHE_LOCK, pc, force, ret, seenBuild, didBuild,
                    callsLeft >>
    /\ UNCHANGED << fnVars, runVars >>

NextPass ==
    \/ \E tariff_ids \in TariffIdInputs : PassBegin(tariff_ids)
    \/ PassRate
    \/ PassFinish
    \/ PassRunning /\ RefreshTariffCache
    \/ PassRunning /\ RebuildByAge
    \/ PassRunning /\ IngestTariffs
    \/ PassRunning /\ Tick

SpecPass == InitRun /\ [][NextPass]_vars

(***************************************************************************)
(* Properties of the tariff cache (checked under SpecCache)                *)
(***************************************************************************)
Loading == { t \in Callers : pc[t] = "loading" }

\* C1: whatever the interleaving of get_tariff_cache calls, forced or not,
\* at most one caller is inside _load_tariff_cache at any time.
C1_AtMostOneRebuild == Cardinality(Loading) <= 1

\* a forced caller waits at the lock while another caller is rebuilding
C1_Witness ==
    \E t, u \in Callers :
        t # u /\ pc[t] = "loading" /\ pc[u] = "waiting" /\ force[u]

\* the build that caller t saw running has completed and t leaves the lock
LeavesLockAfterSeenBuild(t) ==
    /\ pc[t] = "waiting"
    /\ pc'[t] # "waiting"
    /\ ~force[t]
    /\ seenBuild[t] # 0

C3_RebuildExactlyWhenDue ==
    [][\A t \in Callers :
          /\ (pc[t] = "waiting" /\ pc'[t] # "waiting") =>
                /\ (pc'[t] = "loading") <=>
                      \/ force[t]
                      \/ IsNone(TARIFF_CACHE)
                      \/ now - Val(TARIFF_CACHE).last_loaded > 10
                /\ (pc'[t] # "loading") =>
                      /\ pc'[t] = "returned"
                      /\ ret'[t] = TARIFF_CACHE
                      /\ TARIFF_CACHE' = TARIFF_CACHE
                      /\ buildSeq' = buildSeq
          /\ (pc[t] # "returned" /\ pc'[t] = "returned") =>
                /\ ~IsNone(ret'[t])
                /\ now' - Val(ret'[t]).last_loaded <= 10]_vars

\* a non-forced call is rebuilding because the snapshot it found had expired
C3_Witness ==
    \E t \in Callers :
        /\ pc[t] = "loading" /\ ~force[t]
        /\ ~IsNone(TARIFF_CACHE)
        /\ now - Val(TARIFF_CACHE).last_loaded > CACHE_TTL

(***************************************************************************)
(* Properties of find_lane and the rating algorithms (under SpecFn)        *)
(***************************************************************************)
\* the province is missing or empty (also after trimming)
NoProvince(province) == IsNone(province) \/ Strip(Val(province)) = << >>

\* C5: find_lane returns the lane indexed under the normalized (city,
\* province) pair when there is one, else the province-only lane of the
\* normalized province when there is one, else no lane; with a missing or
\* empty province it returns no lane even if the city has a city-level lane.
C5_FindLaneTwoTier ==
    fn = "find_lane" =>
        LET e == arg.entry
            prov == arg.dest_province
            city == arg.dest_city
        IN IF NoProvince(prov) THEN res = None
           ELSE LET np == Strip(Upper(Val(prov)))
                    pair == IF IsNone(city) THEN << << >>, np >>
                            ELSE << Strip(Upper(Val(city))), np >>
                IN IF ~IsNone(city) /\ pair \in DOMAIN e.lanes_by_city
                   THEN res = Some(e.lanes_by_city[pair])
                   ELSE IF np \in DOMAIN e.lanes_by_province
                   THEN res = Some(e.lanes_by_province[np])
                   ELSE res = None

\* a raw, unnormalized destination found its city lane although a
\* province-only lane for the same province exists
C5_Witness ==
    /\ fn = "find_lane"
    /\ arg.dest_city = Some(<< " ", "T", "o", " " >>)
    /\ arg.dest_province = Some(<< "o", "n" >>)
    /\ ON \in DOMAIN arg.entry.lanes_by_province
    /\ res = Some(arg.entry.lanes_by_city[<< CityTO, ON >>])

\* the breaks, sorted by start, are non-overlapping and cover [0, infinity)
WellFormedBreaks(breaks) ==
    /\ breaks # << >>
    /\ OrZero(breaks[1].start) = 0
    /\ IsNone(breaks[Len(breaks)].end)
    /\ \A i \in 1..(Len(breaks) - 1) :
          /\ ~IsNone(breaks[i].end)
          /\ Val(breaks[i].end) = OrZero(breaks[i + 1].start)
          /\ OrZero(breaks[i].start) < Val(breaks[i].end)

\* ceil(x / unit) for x > 0, stated as the least integer n with n * unit >= x
CeilOf(x, unit) == CHOOSE n \in 0..(x \div unit + 1) : n * unit >= x /\ (n - 1) * unit < x

\* cents is one of the amounts in cents nearest to exact / unitsPerCent
NearestCent(cents, exact, unitsPerCent) ==
    /\ 2 * (cents * unitsPerCent - exact) <= unitsPerCent
    /\ 2 * (exact - cents * unitsPerCent) <= unitsPerCent

\* max(ceil(weight/100) * rate, minimum) * 1.53 in millionths of a dollar
CwtExact(w, rate, min_charge) ==
    Max2(CeilOf(w, 10000) * rate, min_charge * 100) * 153

\* hundredweight rating for a well-formed lane, with the lower bound `floor`
\* (in millionths of a dollar) the result must reach
CwtRatingWithFloor(floor) ==
    fn = "rate_cwt" =>
        LET w == arg.billable_weight
            lane == arg.lane_cache
            holds == { i \in DOMAIN lane.cwt_breaks :
                         /\ OrZero(lane.cwt_breaks[i].start) <= Val(w)
                         /\ \/ IsNone(lane.cwt_breaks[i].end)
                            \/ Val(w) < Val(lane.cwt_breaks[i].end) }
        IN /\ (IsNone(w) \/ Val(w) <= 0) => res = None
           /\ (~IsNone(w) /\ Val(w) > 0 /\ WellFormedBreaks(lane.cwt_breaks)) =>
                 /\ Cardinality(holds) = 1
                 /\ ~IsNone(res)
                 /\ \A i \in holds :
                       NearestCent(Val(res),
                                   CwtExact(Val(w), lane.cwt_breaks[i].rate_per_cwt,
                                            lane.min_charge), 10000)
                 /\ Val(res) * 10000 >= floor[lane.min_charge]

\* C6 as stated: ... in particular the result is never below
\* laneMinimumCharge * 1.53.
C6_CwtNeverBelowMinTimesMultiplier ==
    CwtRatingWithFloor([m \in Int |-> m * 100 * 153])

\* C6 (amended): for every positive weight and every lane whose breaks are
\* non-overlapping and cover [0, infinity), hundredweight rating returns
\* max(ceil(weight/100) * rate, laneMinimumCharge) * 1.53 rounded to the
\* nearest cent, rate being that of the unique break holding the weight; the
\* result is never below laneMinimumCharge * 1.53 rounded to the cent (so at
\* most half a cent below the unrounded product); for absent or non-positive
\* weight it returns none.
C6_CwtFormula ==
    CwtRatingWithFloor([m \in Int |-> m * 100 * 153 - 5000])

\* the specification's example: 750 lb in the three-tier lane, minimum $45,
\* rates to $220.32
C6_Witness ==
    /\ fn = "rate_cwt"
    /\ arg.billable_weight = Some(Lb(750))
    /\ WellFormedBreaks(arg.lane_cache.cwt_breaks)
    /\ Len(arg.lane_cache.cwt_breaks) = 3
    /\ arg.lane_cache.min_charge = Dollars(45)
    /\ res = Some(22032)

\* C7: skid rating computes spots = max(1, ceil(pallets or 1)); returns none
\* if a weight is present and exceeds 2000 lb times that unclamped spot count;
\* returns none if the lane has no spot breaks; otherwise clamps the spots to
\* the lane's largest spot count and returns that count's charge times 1.53
\* rounded to the cent, or none if no charge is defined for exactly that count.
C7_SkidFormula ==
    fn = "rate_skid" =>
        LET p == arg.pallets
            w == arg.weight
            breaks == arg.lane_cache.skid_breaks
            pallets == IF IsNone(p) \/ Val(p) = 0 THEN 100 ELSE Val(p)
            spots == IF pallets <= 100 THEN 1 ELSE CeilOf(pallets, 100)
        IN IF ~IsNone(w) /\ Val(w) > 2000 * 100 * spots THEN res = None
           ELSE IF DOMAIN breaks = {} THEN res = None
           ELSE LET largest == CHOOSE k \in DOMAIN breaks : \A j \in DOMAIN breaks : j <= k
                    clamped == IF spots > largest THEN largest ELSE spots
                IN IF clamped \notin DOMAIN breaks THEN res = None
                   ELSE /\ ~IsNone(res)
                        /\ NearestCent(Val(res), breaks[clamped] * 153, 100)

\* six pallets against spot breaks defined up to four are priced at the
\* four-spot charge: $300 * 1.53 = $459.00, the weight being under the cap of
\* the unclamped six spots but over that of four
C7_Witness ==
    /\ fn = "rate_skid"
    /\ arg.pallets = Some(600)
    /\ arg.weight = Some(Lb(11000))
    /\ DOMAIN arg.lane_cache.skid_breaks = 1..4
    /\ res = Some(45900)

\* cents is exact / unitsPerCent rounded to the cent, halves rounded up
HalfUpCent(cents, exact, unitsPerCent) ==
    /\ 2 * (cents * unitsPerCent - exact) <= unitsPerCent
    /\ 2 * (exact - cents * unitsPerCent) < unitsPerCent

\* C8: both rating algorithms return base * 1.53 rounded to 2 decimals with
\* halves rounded up (a base of 0.50 giving 0.765 is charged 0.77).
C8_RoundsHalfUp ==
    /\ (fn = "rate_skid" /\ ~IsNone(res)) =>
          LET breaks == arg.lane_cache.skid_breaks
              pallets == IF NumTruthy(arg.pallets) THEN Val(arg.pallets) ELSE 100
              spots == IF pallets <= 100 THEN 1 ELSE CeilOf(pallets, 100)
              largest == CHOOSE k \in DOMAIN breaks : \A j \in DOMAIN breaks : j <= k
              clamped == IF spots > largest THEN largest ELSE spots
          IN HalfUpCent(Val(res), breaks[clamped] * 153, 100)
    /\ (fn = "rate_cwt" /\ ~IsNone(res) /\ WellFormedBreaks(arg.lane_cache.cwt_breaks)) =>
          LET lane == arg.lane_cache
              w == Val(arg.billable_weight)
          IN \A i \in DOMAIN lane.cwt_breaks :
                InBreak(lane.cwt_breaks[i], w) =>
                   HalfUpCent(Val(res),
                              CwtExact(w, lane.cwt_breaks[i].rate_per_cwt, lane.min_charge),
                              10000)

(***************************************************************************)
(* Properties of the rerate pass (checked under SpecRun)                   *)
(***************************************************************************)
\* the step is a rerate_audit call
RerateStep == lastRerate'.call # lastRerate.call

C9_BestIsFirstMinimum ==
    [][ (RerateStep /\ lastRerate'.status = "ok" /\ shipments # << >>) =>
          \A entries \in { Val(TARIFF_CACHE').entries },
             ids \in { lastRerate'.tariff_ids },
             records \in { LoadRecords(shipments) },
             updates \in { Val(lastRerate'.result).shipment_updates } :
             \A used \in { { k \in 1..Len(entries) :
                                \/ IsNone(ids) \/ Val(ids) = << >>
                                \/ \E j \in DOMAIN Val(ids) : Val(ids)[j] = entries[k].id } } :
                /\ Len(updates) = Len(records)
                /\ \A i \in 1..Len(records) :
                      \A charges \in { { [k |-> k, charge |-> CarrierCharge(entries[k], records, i)] :
                                           k \in used } } :
                         \A produced \in { { c \in charges : ~IsNone(c.charge) } } :
                            IF produced = {}
                            THEN /\ updates[i].best_carrier = None
                                 /\ updates[i].best_charge = None
                            ELSE \E c \in produced :
                                   /\ \A d \in produced : Val(c.charge) <= Val(d.charge)
                                   /\ \A d \in produced :
                                         d.k < c.k => Val(d.charge) > Val(c.charge)
                                   /\ updates[i].best_charge = c.charge
                                   /\ updates[i].best_carrier = Some(entries[c.k].carrier_name) ]_vars

\* ALPHA and GAMMA tie at the minimum for a shipment and GAMMA, whose tariff
\* the snapshot lists first, is the best carrier; another shipment of the
\* same pass has no charge and no best carrier
C9_Witness ==
    /\ lastRerate.status = "ok"
    /\ \E i \in DOMAIN Val(lastRerate.result).shipment_updates :
          LET update == Val(lastRerate.result).shipment_updates[i]
          IN /\ {"ALPHA", "GAMMA"} \subseteq DOMAIN update.expected_charge_per_carrier
             /\ update.expected_charge_per_carrier["ALPHA"] = Val(update.best_charge)
             /\ update.expected_charge_per_carrier["GAMMA"] = Val(update.best_charge)
             /\ update.best_carrier = Some("GAMMA")
    /\ \E i \in DOMAIN Val(lastRerate.result).shipment_updates :
          LET update == Val(lastRerate.result).shipment_updates[i]
          IN update.best_carrier = None /\ update.best_charge = None

\* C10: a rerate of an audit run that has shipments, when the snapshot holds
\* no tariffs or the tariff-id filter matches none of them, fails with the
\* "no tariffs available" error, returns no updates, and leaves the stored
\* rating results as they were.
C10_NoTariffsLeavesResults ==
    [][ ( /\ RerateStep
          /\ shipments # << >>
          /\ LET entries == Val(TARIFF_CACHE').entries
                  ids == lastRerate'.tariff_ids
              IN \/ entries = << >>
                 \/ /\ ~IsNone(ids) /\ Val(ids) # << >>
                    /\ \A k \in DOMAIN entries :
                          \A j \in DOMAIN Val(ids) : Val(ids)[j] # entries[k].id )
        => /\ lastRerate'.status = "error"
           /\ lastRerate'.error = "No tariffs available for re-rating"
           /\ IsNone(lastRerate'.result)
           /\ IsNone(lastRerate'.returned)
           /\ auditResults' = auditResults ]_vars

\* the second pass over a run whose results are stored fails on a snapshot
\* without tariffs; the stored results are still there
C10_Witness ==
    /\ lastRerate.status = "error"
    /\ lastRerate.call = 2
    /\ lastRerate.tariff_ids = None
    /\ ~IsNone(TARIFF_CACHE)
    /\ Val(TARIFF_CACHE).entries = << >>
    /\ \E i \in DOMAIN auditResults :
          /\ ~IsNone(auditResults[i])
          /\ Val(auditResults[i]).tariff_match_status = "MATCHED"

\* C11: a rerate of an audit run without shipments succeeds with the empty
\* result: no rating updates, no consolidation opportunities, every count
\* and total zero; this holds with or without a snapshot and with or without
\* tariffs, and the pass requests no snapshot.
C11_NoShipmentsEmptyResult ==
    [][ (RerateStep /\ shipments = << >>) =>
          /\ lastRerate'.status = "ok"
          /\ lastRerate'.error = ""
          /\ lastRerate'.result =
                Some([shipment_updates |-> << >>,
                      carrier_savings_total |-> 0,
                      carrier_best_total |-> 0,
                      rerated_count |-> 0,
                      consolidation_savings_total |-> 0,
                      consolidation_groups |-> << >>,
                      consolidation_group_count |-> 0])
          /\ TARIFF_CACHE' = TARIFF_CACHE ]_vars

\* a pass over a run without shipments succeeded although the tariff tables
\* are empty and no snapshot was ever built
C11_Witness ==
    /\ shipments = << >>
    /\ lastRerate.status = "ok"
    /\ lastRerate.call >= 1
    /\ tariffDb = << >>
    /\ IsNone(TARIFF_CACHE)

\* the least element of a non-empty set of numbers
SetMin(S) == CHOOSE m \in S : \A x \in S : m <= x

\* the sum of f over the finite set S of its arguments
RECURSIVE SetSum(_, _)
SetSum(f, S) ==
    IF S = {} THEN 0
    ELSE LET x == CHOOSE y \in S : TRUE IN f[x] + SetSum(f, S \ {x})

\* the amount a shipment row was billed, a missing amount counting as 0
Billed(row) == IF IsNone(row.actual_charge) THEN 0 ELSE Val(row.actual_charge)

\* C12: in every rating update of a successful pass, savings_vs_actual is
\* max(0, actual charge - best charge) when there is a best charge, a missing
\* actual charge counting as 0, and 0 when there is none; it is never
\* negative.
C12_SavingsClamped ==
    [][ (RerateStep /\ lastRerate'.status = "ok") =>
          \A updates \in { Val(lastRerate'.result).shipment_updates } :
            \A i \in DOMAIN updates :
              /\ updates[i].shipment_id = shipments[i].id
              /\ updates[i].savings_vs_actual >= 0
              /\ IF IsNone(updates[i].best_charge)
                 THEN updates[i].savings_vs_actual = 0
                 ELSE updates[i].savings_vs_actual =
                        Max2(0, Billed(shipments[i]) - Val(updates[i].best_charge)) ]_vars

\* one pass in which a shipment billed more than its best charge saves the
\* difference, a shipment billed less than its best charge saves nothing,
\* and a shipment with a best charge but no billed amount saves nothing
C12_Witness ==
    /\ lastRerate.status = "ok"
    /\ \E updates \in { Val(lastRerate.result).shipment_updates } :
          /\ \E i \in DOMAIN updates :
                /\ ~IsNone(updates[i].best_charge)
                /\ Billed(shipments[i]) > Val(updates[i].best_charge)
                /\ updates[i].savings_vs_actual > 0
          /\ \E i \in DOMAIN updates :
                /\ ~IsNone(updates[i].best_charge)
                /\ Billed(shipments[i]) > 0
                /\ Billed(shipments[i]) < Val(updates[i].best_charge)
                /\ updates[i].savings_vs_actual = 0
          /\ \E i \in DOMAIN updates :
                /\ ~IsNone(updates[i].best_charge)
                /\ IsNone(shipments[i].actual_charge)
                /\ updates[i].savings_vs_actual = 0

\* C13 (as stated): the rerated-shipment counter and the best-charge total
\* cover exactly the shipments that have both a positive actual charge and a
\* best charge.
C13_TotalsCoverBilledOnly ==
    [][ (RerateStep /\ lastRerate'.status = "ok") =>
          \A result \in { Val(lastRerate'.result) } :
            LET updates == result.shipment_updates
                covered == { i \in DOMAIN updates :
                               /\ ~IsNone(updates[i].best_charge)
                               /\ Billed(shipments[i]) > 0 }
            IN /\ result.rerated_count = Cardinality(covered)
               /\ result.carrier_best_total =
                     SetSum([i \in covered |-> Val(updates[i].best_charge)], covered) ]_vars

\* C13 (amended): the rerated-shipment counter and the best-charge total
\* cover every shipment that has a best charge, whatever it was billed; only
\* the savings total is limited to the shipments billed a positive amount
\* above their best charge, being the sum of the updates' savings.
C13_TotalsCoverEveryBestCharge ==
    [][ (RerateStep /\ lastRerate'.status = "ok") =>
          \A result \in { Val(lastRerate'.result) } :
            LET updates == result.shipment_updates
                covered == { i \in DOMAIN updates : ~IsNone(updates[i].best_charge) }
                saving == { i \in covered :
                              /\ Billed(shipments[i]) > 0
                              /\ Billed(shipments[i]) > Val(updates[i].best_charge) }
            IN /\ result.rerated_count = Cardinality(covered)
               /\ result.carrier_best_total =
                     SetSum([i \in covered |-> Val(updates[i].best_charge)], covered)
               /\ result.carrier_savings_total =
                     SetSum([i \in saving |->
                               Billed(shipments[i]) - Val(updates[i].best_charge)], saving) ]_vars

\* a pass whose counter includes a shipment that has a best charge and no
\* billed amount, next to shipments that were billed
C13_Witness ==
    /\ lastRerate.status = "ok"
    /\ \E result \in { Val(lastRerate.result) } :
          /\ \E i \in DOMAIN result.shipment_updates :
                /\ ~IsNone(result.shipment_updates[i].best_charge)
                /\ IsNone(shipments[i].actual_charge)
          /\ \E i \in DOMAIN result.shipment_updates :
                /\ ~IsNone(result.shipment_updates[i].best_charge)
                /\ Billed(shipments[i]) > 0
          /\ result.rerated_count =
                Cardinality({ i \in DOMAIN result.shipment_updates :
                                ~IsNone(result.shipment_updates[i].best_charge) })
          /\ result.rerated_count >= 3

\* C14: a successful pass returns one rating update per shipment of the run,
\* in the shipments' order; an update is MATCHED exactly when its expected-
\* charge mapping is not empty and NO_LANE otherwise; a NO_LANE update has an
\* empty mapping, no best carrier, no best charge, zero savings and a note
\* that names the shipment's destination city and province; no update is
\* NO_TARIFF.
C14_OneUpdatePerShipment ==
    [][ (RerateStep /\ lastRerate'.status = "ok") =>
          \A updates \in { Val(lastRerate'.result).shipment_updates } :
            /\ Len(updates) = Len(shipments)
            /\ \A i \in DOMAIN updates :
                  /\ updates[i].shipment_id = shipments[i].id
                  /\ updates[i].tariff_match_status \in {"MATCHED", "NO_LANE"}
                  /\ updates[i].tariff_match_status = "MATCHED"
                        <=> DOMAIN updates[i].expected_charge_per_carrier # {}
                  /\ updates[i].tariff_match_status = "MATCHED"
                        => /\ ~IsNone(updates[i].best_carrier)
                           /\ ~IsNone(updates[i].best_charge)
                           /\ IsNone(updates[i].tariff_match_notes)
                  /\ updates[i].tariff_match_status = "NO_LANE"
                        => /\ IsNone(updates[i].best_carrier)
                           /\ IsNone(updates[i].best_charge)
                           /\ updates[i].savings_vs_actual = 0
                           /\ updates[i].tariff_match_notes =
                                 Some(<< "No lane found for", shipments[i].dest_city,
                                         shipments[i].dest_province >>) ]_vars

\* a pass over six shipments with four MATCHED and two NO_LANE updates
C14_Witness ==
    /\ lastRerate.status = "ok"
    /\ \E updates \in { Val(lastRerate.result).shipment_updates } :
          /\ Len(updates) = 6
          /\ Cardinality({ i \in DOMAIN updates :
                             updates[i].tariff_match_status = "MATCHED" }) = 4
          /\ Cardinality({ i \in DOMAIN updates :
                             updates[i].tariff_match_status = "NO_LANE" }) = 2

\* the entries of the snapshot a pass with these tariff_ids rates against
UsedEntries(entries, ids) ==
    { k \in DOMAIN entries :
        \/ IsNone(ids) \/ Val(ids) = << >>
        \/ \E j \in DOMAIN Val(ids) : Val(ids)[j] = entries[k].id }

\* an origin code trimmed and upper-cased
TrimUpper(code) == Upper(Strip(code))

\* a shipment row's origin code as the pipeline reads it: "UNKNOWN" stands
\* for a missing, empty or blank one
OriginCode(row) ==
    IF IsNone(row.origin_dc) \/ TrimUpper(Val(row.origin_dc)) = << >>
    THEN UNKNOWN
    ELSE TrimUpper(Val(row.origin_dc))

\* C15: a carrier is in a shipment's expected-charge mapping only if a
\* tariff of that carrier in the resolved set has the shipment's origin code,
\* both trimmed and upper-cased; a shipment for which the resolved set holds
\* no tariff of its origin gets an empty mapping in a pass that succeeds.
C15_OnlyMatchingOrigin ==
    [][ (RerateStep /\ lastRerate'.status = "ok" /\ shipments # << >>) =>
          \A updates \in { Val(lastRerate'.result).shipment_updates },
             entries \in { Val(TARIFF_CACHE').entries } :
            \A i \in DOMAIN updates :
              LET same == { k \in UsedEntries(entries, lastRerate'.tariff_ids) :
                              TrimUpper(entries[k].origin_dc) = OriginCode(shipments[i]) }
              IN /\ \A c \in DOMAIN updates[i].expected_charge_per_carrier :
                       \E k \in same : entries[k].carrier_name = c
                 /\ same = {} => updates[i].expected_charge_per_carrier = NoCharges ]_vars

\* a shipment of origin XA is rated by ALPHA and not by DELTA, whose tariff
\* of origin XC is in the resolved set and has a lane for its destination
C15_Witness ==
    /\ lastRerate.status = "ok"
    /\ IsNone(lastRerate.tariff_ids)
    /\ ~IsNone(TARIFF_CACHE)
    /\ \E updates \in { Val(lastRerate.result).shipment_updates },
          entries \in { Val(TARIFF_CACHE).entries } :
          \E i \in DOMAIN updates, k \in DOMAIN entries :
            /\ entries[k].carrier_name = "DELTA"
            /\ ~IsNone(FindLane(entries[k], shipments[i].dest_city,
                                 shipments[i].dest_province))
            /\ "ALPHA" \in DOMAIN updates[i].expected_charge_per_carrier
            /\ "DELTA" \notin DOMAIN updates[i].expected_charge_per_carrier

\* a quantity of a shipment row that is missing or not positive
Unusable(quantity) == IsNone(quantity) \/ Val(quantity) <= 0

\* C16 (as stated): a shipment whose weight or pallet count is missing or
\* non-positive gets no charge from any carrier, and the pass still returns
\* an update for every shipment.
C16_MalformedYieldsNoCharge ==
    [][ (RerateStep /\ lastRerate'.status = "ok") =>
          \A updates \in { Val(lastRerate'.result).shipment_updates } :
            /\ Len(updates) = Len(shipments)
            /\ \A i \in DOMAIN updates :
                  (Unusable(shipments[i].weight) \/ Unusable(shipments[i].pallets))
                     => updates[i].expected_charge_per_carrier = NoCharges ]_vars

\* C16 (amended): missing or non-positive weights and pallet counts never
\* make a pass fail: a pass over a non-empty resolved tariff set succeeds and
\* returns an update for every shipment. A carrier whose tariffs of the
\* shipment's origin are all hundredweight tariffs yields no charge when
\* neither the scale weight nor the billed weight is positive. A skid tariff
\* reads a missing or non-positive pallet count as one spot and lets a
\* missing or zero weight pass the weight cap, so its carrier still yields a
\* charge when the lane has a charge for the spot count.
C16_MalformedNeverAborts ==
    [][ (RerateStep /\ shipments # << >>) =>
          \A entries \in { Val(TARIFF_CACHE').entries } :
            LET used == UsedEntries(entries, lastRerate'.tariff_ids)
            IN /\ used # {} <=> lastRerate'.status = "ok"
               /\ used # {} =>
                  \A updates \in { Val(lastRerate'.result).shipment_updates } :
                    /\ Len(updates) = Len(shipments)
                    /\ \A i \in DOMAIN updates :
                          LET row == shipments[i]
                              charged == DOMAIN updates[i].expected_charge_per_carrier
                              same == { k \in used :
                                          TrimUpper(entries[k].origin_dc) = OriginCode(row) }
                              spots == IF Unusable(row.pallets) THEN 1
                                       ELSE CeilDiv(Val(row.pallets), 100)
                          IN /\ updates[i].shipment_id = row.id
                             /\ \A k \in same :
                                   ( /\ \A j \in same :
                                          entries[j].carrier_name = entries[k].carrier_name
                                             => entries[j].tariff_type = "cwt"
                                     /\ Unusable(row.weight)
                                     /\ Unusable(row.dim_weight) )
                                   => entries[k].carrier_name \notin charged
                             /\ \A k \in same :
                                   \A lane \in { FindLane(entries[k], row.dest_city,
                                                          row.dest_province) } :
                                     ( /\ entries[k].tariff_type = "skid_spot"
                                       /\ ~IsNone(lane)
                                       /\ DOMAIN Val(lane).skid_breaks # {}
                                       /\ Min2(spots, SetMax(DOMAIN Val(lane).skid_breaks))
                                             \in DOMAIN Val(lane).skid_breaks
                                       /\ \/ Unusable(row.weight)
                                          \/ Val(row.weight) <= SKID_WEIGHT_CAP_LB * 100 * spots )
                                     => entries[k].carrier_name \in charged ]_vars

\* a pass over six shipments against the skid tariff of ALPHA alone: the
\* shipment without pallet count and weight is charged $153.00, one spot
C16_Witness ==
    /\ lastRerate.status = "ok"
    /\ lastRerate.tariff_ids = Some(<< "t3", "t4" >>)
    /\ \E updates \in { Val(lastRerate.result).shipment_updates } :
          /\ Len(updates) = 6
          /\ \E i \in DOMAIN updates :
                /\ IsNone(shipments[i].pallets)
                /\ IsNone(shipments[i].weight)
                /\ DOMAIN updates[i].expected_charge_per_carrier = {"ALPHA"}
                /\ updates[i].expected_charge_per_carrier["ALPHA"] = 15300
                /\ updates[i].tariff_match_status = "MATCHED"

\* the shipment rows an opportunity stands for: those with its origin code,
\* destination city and province (trimmed, upper-cased) that were shipped
\* from Monday to Thursday of the ISO week of its date
Members(opp) ==
    { i \in DOMAIN shipments :
        /\ ~IsNone(shipments[i].ship_date)
        /\ Val(shipments[i].ship_date).week = opp.ship_date.week
        /\ Val(shipments[i].ship_date).weekday \in 0..3
        /\ OriginCode(shipments[i]) = TrimUpper(opp.origin_dc)
        /\ TrimUpper(OrEmpty(shipments[i].dest_city)) = TrimUpper(opp.dest_city)
        /\ TrimUpper(OrEmpty(shipments[i].dest_province)) = TrimUpper(opp.dest_province) }

\* the rows of the opportunity's origin, destination and week, whatever the
\* weekday
SameLaneAndWeek(opp) ==
    { i \in DOMAIN shipments :
        /\ ~IsNone(shipments[i].ship_date)
        /\ Val(shipments[i].ship_date).week = opp.ship_date.week
        /\ OriginCode(shipments[i]) = TrimUpper(opp.origin_dc)
        /\ TrimUpper(OrEmpty(shipments[i].dest_city)) = TrimUpper(opp.dest_city)
        /\ TrimUpper(OrEmpty(shipments[i].dest_province)) = TrimUpper(opp.dest_province) }

\* C17: in every returned consolidation opportunity the shipment count, the
\* sum of actual charges and the sum of individual best charges are those of
\* the Monday-to-Thursday shipments of its origin, destination and ISO week;
\* a shipment of Friday, Saturday or Sunday is in none of them, however many
\* shipments share its origin, destination and week.
C17_WeekendNeverGrouped ==
    [][ (RerateStep /\ lastRerate'.status = "ok") =>
          \A result \in { Val(lastRerate'.result) } :
            \A g \in DOMAIN result.consolidation_groups :
              \A opp \in { result.consolidation_groups[g] } :
                LET members == Members(opp)
                    updates == result.shipment_updates
                IN /\ opp.shipment_count = Cardinality(members)
                   /\ opp.actual_sum =
                         SetSum([i \in members |-> Billed(shipments[i])], members)
                   /\ opp.individual_best_sum =
                         SetSum([i \in members |->
                                   IF IsNone(updates[i].best_charge)
                                   THEN Billed(shipments[i])
                                   ELSE Val(updates[i].best_charge)], members) ]_vars

\* an opportunity of two shipments on a lane and week that also has a
\* Friday and a Sunday shipment, both rated by the pass
C17_Witness ==
    /\ lastRerate.status = "ok"
    /\ \E result \in { Val(lastRerate.result) } :
          \E g \in DOMAIN result.consolidation_groups :
            \E opp \in { result.consolidation_groups[g] } :
              /\ opp.shipment_count = 2
              /\ Cardinality(SameLaneAndWeek(opp)) = 4
              /\ \E i, j \in SameLaneAndWeek(opp) :
                    /\ Val(shipments[i].ship_date).weekday = 4
                    /\ Val(shipments[j].ship_date).weekday = 6
                    /\ ~IsNone(result.shipment_updates[i].best_charge)
                    /\ ~IsNone(result.shipment_updates[j].best_charge)

\* the rows that can be grouped: a ship date from Monday to Thursday and a
\* destination province
Eligible ==
    { i \in DOMAIN shipments :
        /\ ~IsNone(shipments[i].ship_date)
        /\ Val(shipments[i].ship_date).weekday \in 0..3
        /\ TrimUpper(OrEmpty(shipments[i].dest_province)) # << >> }

\* the eligible rows of row i's origin, destination and ISO week
Peers(i) ==
    { j \in Eligible :
        /\ Val(shipments[j].ship_date).week = Val(shipments[i].ship_date).week
        /\ OriginCode(shipments[j]) = OriginCode(shipments[i])
        /\ TrimUpper(OrEmpty(shipments[j].dest_city))
              = TrimUpper(OrEmpty(shipments[i].dest_city))
        /\ TrimUpper(OrEmpty(shipments[j].dest_province))
              = TrimUpper(OrEmpty(shipments[i].dest_province)) }

\* the groups of the run
Groups == { Peers(i) : i \in Eligible }

\* a quantity of a row, a missing one counting as 0
Quantity(q) == IF IsNone(q) THEN 0 ELSE Val(q)

\* the sum, over the rows of group S, of the best charge or, without one, of
\* the billed amount
IndividualBestSum(S, updates) ==
    SetSum([i \in S |-> IF IsNone(updates[i].best_charge) THEN Billed(shipments[i])
                        ELSE Val(updates[i].best_charge)], S)

\* what entry charges for group S shipped as one load (None: nothing)
LoadCharge(entry, S) ==
    LET first == shipments[CHOOSE i \in S : \A j \in S : i <= j]
        pallets == SetSum([i \in S |-> Quantity(shipments[i].pallets)], S)
        weight == SetSum([i \in S |-> Quantity(shipments[i].weight)], S)
        dim == SetSum([i \in S |-> Quantity(shipments[i].dim_weight)], S)
        lane == FindLane(entry, first.dest_city, first.dest_province)
    IN IF TrimUpper(entry.origin_dc) # OriginCode(first) \/ IsNone(lane) THEN None
       ELSE IF entry.tariff_type = "cwt"
            THEN IF weight = 0 /\ dim = 0 THEN None
                 ELSE RateCwtCached(Some(Max2(weight, dim)), Val(lane), TRUE)
            ELSE RateSkidSpotCached(Some(pallets), Some(weight), Val(lane), TRUE)

\* the charges the entries in `used` offer for group S, with their carriers
LoadOffers(entries, used, S) ==
    { [charge |-> Val(x.charge), carrier |-> x.carrier] :
        x \in { y \in { [charge |-> LoadCharge(entries[k], S),
                         carrier |-> entries[k].carrier_name] : k \in used } :
                  ~IsNone(y.charge) } }

\* the groups of the run, each with the sum of its rows' individual best
\* charges and the offers for its consolidated load
GroupInfo(entries, used, updates) ==
    { [rows |-> S,
       best_sum |-> IndividualBestSum(S, updates),
       offers |-> LoadOffers(entries, used, S)] : S \in Groups }

\* a group worth consolidating: two shipments or more and an offer below the
\* sum of the individual best charges
Gainful(g) ==
    /\ Cardinality(g.rows) >= 2
    /\ \E o \in g.offers : o.charge < g.best_sum

\* C18: every returned consolidation opportunity counts at least 2
\* shipments, carries the least consolidated charge that the tariffs of the
\* group's origin in the resolved set give for the combined load, with that
\* tariff's carrier, and has incremental_savings = individual_best_sum -
\* consolidated_charge > 0; a group whose consolidated charge is not below
\* its individual-best sum is returned by no opportunity and is not counted.
C18_OnlyGainfulGroups ==
    [][ (RerateStep /\ lastRerate'.status = "ok" /\ shipments # << >>) =>
          \A result \in { Val(lastRerate'.result) },
             entries \in { Val(TARIFF_CACHE').entries } :
            \A infos \in { GroupInfo(entries, UsedEntries(entries, lastRerate'.tariff_ids),
                                     result.shipment_updates) } :
              \A kept \in { { g \in infos : Gainful(g) } } :
                /\ \A n \in DOMAIN result.consolidation_groups :
                     \A opp \in { result.consolidation_groups[n] } :
                       /\ opp.shipment_count >= 2
                       /\ ~IsNone(opp.carrier)
                       /\ opp.incremental_savings
                             = opp.individual_best_sum - opp.consolidated_charge
                       /\ opp.incremental_savings > 0
                       /\ \E g \in kept :
                             /\ g.rows = Members(opp)
                             /\ \A o \in g.offers : opp.consolidated_charge <= o.charge
                             /\ \E o \in g.offers :
                                   /\ o.charge = opp.consolidated_charge
                                   /\ Some(o.carrier) = opp.carrier
                /\ result.consolidation_group_count = Cardinality(kept)
                /\ Len(result.consolidation_groups) = Cardinality(kept)
                /\ result.consolidation_savings_total =
                      SetSum([g \in kept |->
                                g.best_sum - SetMin({ o.charge : o \in g.offers })],
                             kept) ]_vars

\* two shipments of billed weight 200 lb rated $61.20 each by DELTA, whose
\* load of 400 lb DELTA rates $122.40: the group saves nothing and is not
\* returned, while another group of the same pass is
C18_Witness ==
    /\ lastRerate.status = "ok"
    /\ ~IsNone(TARIFF_CACHE)
    /\ \E result \in { Val(lastRerate.result) },
          entries \in { Val(TARIFF_CACHE).entries } :
          /\ result.consolidation_group_count = 1
          /\ Len(result.consolidation_groups) = 1
          /\ \E g \in GroupInfo(entries, UsedEntries(entries, lastRerate.tariff_ids),
                                  result.shipment_updates) :
                /\ Cardinality(g.rows) = 2
                /\ \A i \in g.rows : result.shipment_updates[i].best_charge = Some(6120)
                /\ g.best_sum = 12240
                /\ g.offers = { [charge |-> 12240, carrier |-> "DELTA"] }
                /\ Members(result.consolidation_groups[1]) # g.rows

\* C19: the list of opportunities returned for a list of surviving groups
\* is in non-increasing order of incremental savings, holds the smaller of 15
\* and the number of surviving groups, each of them a surviving group taken
\* once, and no surviving group left out saves more than a returned one.
C19_TopFifteenBySavings ==
    fn = "top_opportunities" =>
      \A opps \in { arg.opportunities }, top \in { res } :
        LET returned == { top[i] : i \in DOMAIN top }
            surviving == { opps[i] : i \in DOMAIN opps }
        IN /\ Len(top) <= 15
           /\ Len(top) = IF Len(opps) < 15 THEN Len(opps) ELSE 15
           /\ \A i \in DOMAIN top :
                 i > 1 => top[i - 1].incremental_savings >= top[i].incremental_savings
           /\ returned \subseteq surviving
           /\ Cardinality(returned) = Len(top)
           /\ \A o \in surviving \ returned :
                 \A t \in returned : o.incremental_savings <= t.incremental_savings

\* seventeen surviving groups that were not in order: fifteen are returned,
\* the first saving more than the last, and two are left out
C19_Witness ==
    /\ fn = "top_opportunities"
    /\ Len(arg.opportunities) = 17
    /\ Len(res) = 15
    /\ res[1].incremental_savings > res[15].incremental_savings
    /\ \E i \in 1..16 :
          arg.opportunities[i].incremental_savings
             < arg.opportunities[i + 1].incremental_savings
    /\ \E i \in 1..17 : arg.opportunities[i].incremental_savings
                            < res[15].incremental_savings

StoredFields(update) ==
    [expected_charge_per_carrier |-> update.expected_charge_per_carrier,
     best_carrier |-> update.best_carrier,
     best_charge |-> update.best_charge,
     savings_vs_actual |-> update.savings_vs_actual,
     tariff_match_status |-> update.tariff_match_status,
     tariff_match_notes |-> update.tariff_match_notes]

\* C21: the stored rating results hold one (possibly absent) row per shipment;
\* after a rerate pass that produced Rating Updates, the row of every shipment
\* carries exactly the mapping, best carrier, best charge, savings, status
\* and notes of that pass's update for the shipment, whatever an earlier pass
\* stored; a pass that fails and every other step leave the rows alone.
C21_LatestUpdateStored ==
    [][ /\ DOMAIN auditResults' = 1..Len(shipments)
        /\ (RerateStep /\ lastRerate'.status = "ok") =>
              \A updates \in { Val(lastRerate'.result).shipment_updates } :
                 \A i \in 1..Len(shipments) :
                    /\ Cardinality({ j \in DOMAIN updates :
                                       updates[j].shipment_id = shipments[i].id }) = 1
                    /\ \A j \in DOMAIN updates :
                          updates[j].shipment_id = shipments[i].id =>
                             auditResults'[i] = Some(StoredFields(updates[j]))
        /\ (~RerateStep \/ lastRerate'.status # "ok") => auditResults' = auditResults ]_vars

\* the second pass rated six shipments and replaced values the first pass had
\* stored: every stored row is the second pass's update
C21_Witness ==
    /\ lastRerate.call = 2
    /\ lastRerate.status = "ok"
    /\ lastRerate.superseded
    /\ Len(shipments) = 6
    /\ \A i \in 1..6 :
          auditResults[i] = Some(StoredFields(Val(lastRerate.result).shipment_updates[i]))
    /\ \E i \in 1..6 : Val(auditResults[i]).tariff_match_status = "MATCHED"

\* every rate cell of the sheet row was filled
NoBlankRate == \A i \in DOMAIN arg.rates : ~IsNone(arg.rates[i])

\* every break column takes its range from the standard table
StandardColumns ==
    \A i \in DOMAIN arg.break_columns :
       /\ IsNone(arg.break_columns[i].from) /\ IsNone(arg.break_columns[i].to)
       /\ Strip(Upper(arg.break_columns[i].column)) \in DOMAIN STANDARD_BREAK_RANGES

\* C22: the hundredweight breaks of a cached lane that parse_cwt_tariff wrote
\* with the standard break ranges, from a sheet row with a rate in every
\* break column, are, sorted by start weight, pairwise non-overlapping and
\* together cover [0, infinity).
C22_IngestedBreaksWellFormed ==
    (fn = "parse_cwt_breaks" /\ StandardColumns /\ NoBlankRate) =>
       WellFormedBreaks(out.lane_cache.cwt_breaks)

\* the lane with break br as its only break, open-ended
LaneOfBreak(lane, br) ==
    [lane EXCEPT !.cwt_breaks = << [start |-> br.start, end |-> None,
                                    rate_per_cwt |-> br.rate_per_cwt] >>]

\* C23: hundredweight rating of a positive weight that no break's range
\* [start, end) contains is rated with a break of the largest start <= weight;
\* the result is none exactly when no break starts at or below the weight
\* (in particular when the lane has no breaks); in a lane whose breaks are
\* non-overlapping and cover [0, infinity) some break contains the weight.
C23_FallbackLargestStart ==
    (fn = "rate_cwt" /\ NumTruthy(arg.billable_weight) /\ Val(arg.billable_weight) > 0) =>
       \A w \in { Val(arg.billable_weight) }, breaks \in { arg.lane_cache.cwt_breaks } :
          \A holding \in { { i \in DOMAIN breaks : InBreak(breaks[i], w) } },
             below \in { { i \in DOMAIN breaks : OrZero(breaks[i].start) <= w } } :
             /\ IsNone(res) <=> below = {}
             /\ (holding = {} /\ below # {}) =>
                   \E k \in below :
                      /\ \A j \in below : OrZero(breaks[j].start) <= OrZero(breaks[k].start)
                      /\ res = RateCwtCached(arg.billable_weight,
                                             LaneOfBreak(arg.lane_cache, breaks[k]), TRUE)
             /\ WellFormedBreaks(breaks) => holding # {}

\* 2,500 lb in a lane with the breaks [0,500) at $20 and [500,1000) at $18:
\* no break holds the weight, and it is rated 25 cwt * $18 * 1.53 = $688.50
C23_Witness ==
    /\ fn = "rate_cwt"
    /\ arg.billable_weight = Some(Lb(2500))
    /\ arg.lane_cache.min_charge = Dollars(45)
    /\ arg.lane_cache.cwt_breaks =
          << [start |-> Some(Lb(0)), end |-> Some(Lb(500)), rate_per_cwt |-> PerCwt(20)],
             [start |-> Some(Lb(500)), end |-> Some(Lb(1000)), rate_per_cwt |-> PerCwt(18)] >>
    /\ res = Some(68850)

\* the entries of the resolved set that charge for group S as one load
Offering(entries, used, S) == { k \in used : ~IsNone(LoadCharge(entries[k], S)) }

\* C24: the consolidated charge of every returned opportunity is the least
\* charge that the tariffs of the resolved set with the group's origin and a
\* lane for its destination give for the group as one load (hundredweight
\* tariffs rate max(sum of scale weights, sum of billed weights), skid
\* tariffs the summed pallets and the summed scale weight), and its carrier
\* is that of the first such tariff, in snapshot order, that gives that
\* charge; a group for which no tariff gives a charge is not returned, and a
\* group of two or more whose least such charge is below the sum of its
\* members' individual best charges is.
C24_ConsolidatedChargeIsLeastOffer ==
    [][ (RerateStep /\ lastRerate'.status = "ok" /\ shipments # << >>) =>
          \A result \in { Val(lastRerate'.result) },
             entries \in { Val(TARIFF_CACHE').entries } :
            \A used \in { UsedEntries(entries, lastRerate'.tariff_ids) } :
              /\ \A n \in DOMAIN result.consolidation_groups :
                    \A opp \in { result.consolidation_groups[n] } :
                      \A S \in { Members(opp) } :
                        \A charges \in { { [k |-> k, charge |-> LoadCharge(entries[k], S)] :
                                             k \in used } } :
                          \E c \in charges :
                            /\ c.charge = Some(opp.consolidated_charge)
                            /\ opp.carrier = Some(entries[c.k].carrier_name)
                            /\ \A d \in charges :
                                  ~IsNone(d.charge) =>
                                     /\ Val(d.charge) >= opp.consolidated_charge
                                     /\ d.k < c.k => Val(d.charge) > opp.consolidated_charge
              /\ \A S \in Groups :
                    Offering(entries, used, S) = {} =>
                       \A n \in DOMAIN result.consolidation_groups :
                          Members(result.consolidation_groups[n]) # S
              /\ \A g \in GroupInfo(entries, used, result.shipment_updates) :
                    ( /\ Cardinality(g.rows) >= 2
                      /\ g.offers # {}
                      /\ SetMin({ o.charge : o \in g.offers }) < g.best_sum )
                    => \E n \in DOMAIN result.consolidation_groups :
                          Members(result.consolidation_groups[n]) = g.rows ]_vars

\* a pass against a skid and a hundredweight tariff of origin XA: the load
\* of two shipments (3 pallets, 800 lb) is offered $382.50 by the skid tariff
\* and $220.32 by the hundredweight tariff and the opportunity carries
\* $220.32; the group of origin XC is offered nothing and is not returned
C24_Witness ==
    /\ lastRerate.status = "ok"
    /\ ~IsNone(TARIFF_CACHE)
    /\ Val(TARIFF_CACHE).build = lastRerate.snapshot_build
    /\ \E result \in { Val(lastRerate.result) },
          entries \in { Val(TARIFF_CACHE).entries } :
          \E used \in { UsedEntries(entries, lastRerate.tariff_ids) } :
             /\ Len(result.consolidation_groups) = 1
             /\ \E opp \in { result.consolidation_groups[1] } :
                   /\ opp.consolidated_charge = 22032
                   /\ opp.carrier = Some("ALPHA")
                   /\ { LoadCharge(entries[k], Members(opp)) : k \in used }
                         = { Some(38250), Some(22032) }
             /\ \E S \in Groups :
                   /\ Cardinality(S) = 2
                   /\ Offering(entries, used, S) = {}

\* C25: in every returned opportunity individual_best_sum is the sum, over
\* its members, of the best charge of the member's Rating Update of this
\* pass, a member without a best charge counting with its actual charge and
\* a missing actual charge counting as 0; actual_sum is the sum of the
\* members' actual charges, a missing one counting as 0.
C25_GroupSums ==
    [][ (RerateStep /\ lastRerate'.status = "ok") =>
          \A result \in { Val(lastRerate'.result) } :
            \A updates \in { result.shipment_updates } :
              \A n \in DOMAIN result.consolidation_groups :
                \A opp \in { result.consolidation_groups[n] } :
                  \A members \in { Members(opp) } :
                    \A rated \in { { i \in members : ~IsNone(updates[i].best_charge) } } :
                      /\ opp.individual_best_sum =
                            SetSum([i \in rated |-> Val(updates[i].best_charge)], rated)
                            + SetSum([i \in members \ rated |-> Billed(shipments[i])],
                                     members \ rated)
                      /\ opp.actual_sum =
                            SetSum([i \in members |-> Billed(shipments[i])], members) ]_vars

\* an opportunity of three shipments: one rated $220.32 and billed $300, one
\* without a best charge and billed $200, one rated $68.85 with no billed
\* amount; individual_best_sum is $489.17 and actual_sum $500.00
C25_Witness ==
    /\ lastRerate.status = "ok"
    /\ \E result \in { Val(lastRerate.result) } :
          \E n \in DOMAIN result.consolidation_groups :
            \E opp \in { result.consolidation_groups[n] } :
              /\ opp.shipment_count = 3
              /\ opp.individual_best_sum = 48917
              /\ opp.actual_sum = Dollars(500)
              /\ \E i, j, k \in Members(opp) :
                    /\ result.shipment_updates[i].best_charge = Some(22032)
                    /\ shipments[i].actual_charge = Some(Dollars(300))
                    /\ IsNone(result.shipment_updates[j].best_charge)
                    /\ shipments[j].actual_charge = Some(Dollars(200))
                    /\ result.shipment_updates[k].best_charge = Some(6885)
                    /\ IsNone(shipments[k].actual_charge)

C27_PassUsesOneSnapshot ==
    [][ /\ (pass.pc = "rating" /\ pass'.pc = "consolidating") =>
              /\ pass'.snapshot = pass.snapshot
              /\ TARIFF_CACHE' = TARIFF_CACHE
              /\ \A records \in { LoadRecords(shipments) } :
                    \A entries \in { FilterTariffEntries(Val(pass.snapshot), pass.tariff_ids) } :
                       Val(pass'.built) = BuildShipmentUpdates(records,
                                              ComputeCarrierColumns(records, entries))
        /\ (pass.pc = "consolidating" /\ pass'.pc = "done") =>
              /\ TARIFF_CACHE' = TARIFF_CACHE
              /\ lastRerate'.snapshot_build = Val(pass.snapshot).build
              /\ lastRerate'.result =
                    Some(RerateResult(LoadRecords(shipments),
                                      FilterTariffEntries(Val(pass.snapshot), pass.tariff_ids)))
        /\ (pass.pc \in {"rating", "consolidating"} /\ pass'.pc = pass.pc) =>
              pass' = pass ]_vars

\* a pass has finished after another request replaced the snapshot, and the
\* snapshot in place now would have given a different result
C27_Witness ==
    /\ pass.pc = "done"
    /\ pass.overtaken
    /\ Val(TARIFF_CACHE).build # Val(pass.snapshot).build
    /\ Val(lastRerate.result).rerated_count > 0
    /\ Val(lastRerate.result).consolidation_group_count > 0
    /\ Val(lastRerate.result) #
          RerateResult(LoadRecords(shipments),
                       FilterTariffEntries(Val(TARIFF_CACHE), pass.tariff_ids))

\* C28: when the load raises inside get_tariff_cache the lock is released and
\* the module's snapshot (or its absence) stays as it was; the lock is only
\* ever held by a caller that is loading, so a caller that waits while nobody
\* loads can enter, and it builds or returns a snapshot
C28_FailedLoadReleasesLock ==
    /\ [][ /\ \A t \in Callers :
                  (pc[t] = "loading" /\ pc'[t] = "raised") =>
                     /\ CACHE_LOCK' = 0
                     /\ TARIFF_CACHE' = TARIFF_CACHE
                     /\ ret'[t] = None
            /\ \A u \in Callers :
                  (pc[u] = "loading" /\ pc'[u] = "returned") =>
                     /\ ~IsNone(ret'[u])
                     /\ TARIFF_CACHE' = ret'[u] ]_vars
    /\ [] /\ CACHE_LOCK # 0 => pc[CACHE_LOCK] = "loading"
          /\ \A u \in Callers :
                (pc[u] = "waiting" /\ \A t \in Callers : pc[t] # "loading") =>
                   ENABLED Enter(u)

\* caller t's load raised while there was no snapshot, and afterwards caller
\* u built the snapshot and got it back
C28_Witness ==
    \E t, u \in Callers :
       /\ pc[t] = "raised" /\ didBuild[t]
       /\ pc[u] = "returned" /\ didBuild[u]
       /\ buildSeq > 1
       /\ ~IsNone(ret[u])
       /\ Val(ret[u]).build = buildSeq
       /\ TARIFF_CACHE = ret[u]

\* the records a group of the pass is made of: shipped Monday to Thursday,
\* with a destination province, and of the given key
KeyOfRecord(rec) ==
    << OriginKey(rec), DestCityKey(rec), DestProvinceKey(rec), Val(rec.ship_date).week >>

Groupable(rec) ==
    /\ ~IsNone(rec.ship_date)
    /\ DestProvinceKey(rec) # << >>
    /\ Val(rec.ship_date).weekday \in 0..3

\* the elements of a set of numbers in rising order
RECURSIVE Rising(_)
Rising(S) == IF S = {} THEN << >> ELSE << SetMin(S) >> \o Rising(S \ {SetMin(S)})

\* the groups of two or more records with what the pass makes of each
GroupOutcomes(records, updates, entries) ==
    { [key |-> k,
       opp |-> GroupOpportunity(records, updates, entries,
                   [key |-> k,
                    indices |-> Rising({ i \in DOMAIN records :
                                           Groupable(records[i]) /\ KeyOfRecord(records[i]) = k })])] :
      k \in { KeyOfRecord(records[i]) : i \in { j \in DOMAIN records : Groupable(records[j]) } } }

\* C29: consolidation_group_count is the number of groups that survive every
\* discard step, consolidation_savings_total is the sum of the incremental
\* savings of all of them, those beyond the fifteen returned included, and
\* the returned list holds min(15, consolidation_group_count) of them
C29_CountAndTotalCoverAllGroups ==
    fn = "compute_consolidation" =>
      \A outcomes \in { GroupOutcomes(arg.records, arg.updates, arg.entries) } :
        \A surviving \in { { g \in outcomes : ~IsNone(g.opp) } } :
          /\ res.consolidation_group_count = Cardinality(surviving)
          /\ res.consolidation_savings_total =
                SetSum([g \in surviving |-> Val(g.opp).incremental_savings], surviving)
          /\ Len(res.consolidation_groups) =
                IF res.consolidation_group_count < 15
                THEN res.consolidation_group_count ELSE 15
          /\ \A i \in DOMAIN res.consolidation_groups :
                \E g \in surviving : g.opp = Some(res.consolidation_groups[i])

\* eighteen weeks of which sixteen give a surviving group and two do not:
\* fifteen are returned, and the total exceeds what the fifteen save
C29_Witness ==
    /\ fn = "compute_consolidation"
    /\ Len(arg.records) = 35
    /\ res.consolidation_group_count = 16
    /\ Len(res.consolidation_groups) = 15
    /\ res.consolidation_savings_total >
          SumTo([i \in 1..15 |-> res.consolidation_groups[i].incremental_savings], 15)
    /\ res.consolidation_groups[15].incremental_savings > 0

\* C30: run_audit on an existing run stores PROCESSING before it computes;
\* when it ends the stored status is COMPLETED if it returned and FAILED if
\* it raised, never PROCESSING; rerate_audit leaves the status alone
C30_StatusFollowsOutcome ==
    /\ [] /\ audit_run.pc = "computing" => audit_run.status = PROCESSING
          /\ (audit_run.pc \in {"ended", "idle"} /\ audit_run.began) =>
                /\ audit_run.outcome = "returned" => audit_run.status = COMPLETED
                /\ audit_run.outcome = "raised" => audit_run.status = FAILED
                /\ audit_run.status # PROCESSING
    /\ [][ RerateStep => audit_run'.status = audit_run.status ]_vars

====
